---- MODULE Spec2Model ----
(***************************************************************************)
(* A model of pystac_user.schema: the Query directive, the datetime range  *)
(* resolver and the construction of the Search dataclass (pydantic v1      *)
(* validators run field by field, then the root validators).               *)
(*                                                                         *)
(* Python strings are sequences of one-character strings, so that          *)
(* splitting, the regular expression and the integer conversions are       *)
(* computed and not assumed.  Every Python value carries a tag t that      *)
(* plays the role of its type in the isinstance chains of the source.      *)
(* A datetime is its proleptic-Gregorian day ordinal d (0001-01-01 is 1),  *)
(* its second of the day s, its microsecond us, and its utc offset off in  *)
(* minutes (aware = FALSE for a naive datetime).                           *)
(***************************************************************************)
EXTENDS Integers, Sequences, FiniteSets, TLC

VARIABLES
    component,   \* argument of the last _datetime_to_range call
    range,       \* its outcome: [ok, start, end] or [ok |-> FALSE, ...]
    qargs,       \* arguments of the last Query(...) call
    query,       \* the Query it produced, or None
    qerror,      \* the operator symbols its ValidationError names
    args,        \* keyword arguments of the last Search(...) call
    search,      \* the Search it produced, or None
    error,       \* the fields its ValidationError names, in field order
    log,         \* warnings the call sent to the logger, in order
    raised,      \* the class of the exception the call raised, or None
    call,        \* the last call of a parser: [f, arg]
    ret,         \* what it returned or raised
    request,     \* the last call of a serializer of the Search: [method, local, out]
    earlier,     \* the serializer call before the last one, or None
    alias,       \* keys of the last mapping returned whose values are objects of the Search
    held,        \* the last mapping returned as its caller changed it, or None
    attempt      \* the last attribute assignment on the Search: [name, value, exc]

vars ==
    <<component, range, qargs, query, qerror, args, search, error, raised, log, call, ret,
      request, earlier, alias, held, attempt>>

None == [t |-> "None"]

---------------------------------------------------------------------------
(* Strings *)

Digits == {"0", "1", "2", "3", "4", "5", "6", "7", "8", "9"}

DigitVal(c) ==
    CASE c = "0" -> 0 [] c = "1" -> 1 [] c = "2" -> 2 [] c = "3" -> 3
      [] c = "4" -> 4 [] c = "5" -> 5 [] c = "6" -> 6 [] c = "7" -> 7
      [] c = "8" -> 8 [] c = "9" -> 9

DigitChar(n) ==
    <<"0", "1", "2", "3", "4", "5", "6", "7", "8", "9">>[n + 1]

\* int(s) for a string of decimal digits
RECURSIVE IntOf(_)
IntOf(s) ==
    IF s = <<>> THEN 0
    ELSE 10 * IntOf(SubSeq(s, 1, Len(s) - 1)) + DigitVal(s[Len(s)])

\* the literal that writes n in exactly w digits
RECURSIVE Fmt(_, _)
Fmt(n, w) ==
    IF w = 0 THEN <<>> ELSE Fmt(n \div 10, w - 1) \o <<DigitChar(n % 10)>>

\* s[i .. i+n-1] exists and is all digits (\d{n} at position i)
IsDigits(s, i, n) ==
    /\ i + n - 1 <= Len(s)
    /\ \A k \in i..(i + n - 1) : s[k] \in Digits

\* sep in s
Contains(s, sep) == \E k \in 1..Len(s) : s[k] = sep

\* position of the first character of s that is in cs, or 0
FirstIn(s, cs) ==
    IF \E k \in 1..Len(s) : s[k] \in cs
    THEN CHOOSE k \in 1..Len(s) : s[k] \in cs /\ \A j \in 1..(k - 1) : s[j] \notin cs
    ELSE 0

\* s.split(sep): always at least one part, empty parts kept
RECURSIVE Split(_, _)
Split(s, sep) ==
    LET k == FirstIn(s, {sep})
    IN  IF k = 0 THEN <<s>>
        ELSE <<SubSeq(s, 1, k - 1)>> \o Split(SubSeq(s, k + 1, Len(s)), sep)

Str(s) == [t |-> "str", v |-> s]

---------------------------------------------------------------------------
(* datetime.datetime, datetime.timedelta *)

SecondsPerDay == 24 * 3600

\* calendar.isleap, as the datetime constructor and date arithmetic use it
IsLeap(y) == y % 4 = 0 /\ (y % 100 # 0 \/ y % 400 = 0)

DaysInMonth(y, m) ==
    IF m = 2 THEN (IF IsLeap(y) THEN 29 ELSE 28)
    ELSE IF m \in {4, 6, 9, 11} THEN 30 ELSE 31

DaysBeforeYear(y) ==
    (y - 1) * 365 + (y - 1) \div 4 - (y - 1) \div 100 + (y - 1) \div 400

RECURSIVE DaysBeforeMonth(_, _)
DaysBeforeMonth(y, m) ==
    IF m = 1 THEN 0 ELSE DaysBeforeMonth(y, m - 1) + DaysInMonth(y, m - 1)

Ymd2Ord(y, m, d) == DaysBeforeYear(y) + DaysBeforeMonth(y, m) + d

\* the arguments datetime(...) accepts; anything else raises ValueError
ValidDate(y, m, d) ==
    /\ y \in 1..9999
    /\ m \in 1..12
    /\ d \in 1..DaysInMonth(y, m)

ValidTime(hh, mm, ss) == hh \in 0..23 /\ mm \in 0..59 /\ ss \in 0..59

\* datetime(y, m, d, hh, mm, ss, tzinfo=timezone(timedelta(minutes=off)))
Datetime(y, m, d, hh, mm, ss, us, aware, off) ==
    [t |-> "datetime", d |-> Ymd2Ord(y, m, d), s |-> hh * 3600 + mm * 60 + ss,
     us |-> us, aware |-> aware, off |-> off]

\* dt + timedelta(days=days, seconds=seconds)
AddDelta(dt, days, seconds) ==
    LET total == dt.s + seconds
    IN  [dt EXCEPT !.d = dt.d + days + (total \div SecondsPerDay),
                   !.s = total % SecondsPerDay]

\* the same instant with a zero offset (what aware comparison compares)
Utc(dt) ==
    LET total == dt.s - dt.off * 60
    IN  [d |-> dt.d + (total \div SecondsPerDay), s |-> total % SecondsPerDay,
         us |-> dt.us]

\* a < b for two datetimes that are both naive or both aware
Before(a, b) ==
    LET x == Utc(a)
        y == Utc(b)
    IN  \/ x.d < y.d
        \/ x.d = y.d /\ x.s < y.s
        \/ x.d = y.d /\ x.s = y.s /\ x.us < y.us

\* a == b as Python compares datetimes
SameInstant(a, b) == a.aware = b.aware /\ Utc(a) = Utc(b)

\* a <= b
NotAfter(a, b) == Before(a, b) \/ SameInstant(a, b)

\* comparing a naive with an aware datetime raises TypeError
Comparable(a, b) == a.aware = b.aware

---------------------------------------------------------------------------
(* DATETIME_REGEX and datetime.fromisoformat *)

MONTH_DAYS(m) ==
    <<31, 28, 31, 30, 31, 30, 31, 31, 30, 31, 30, 31>>[m]

\* number of consecutive digits of s from position i on
RECURSIVE DigitRun(_, _)
DigitRun(s, i) ==
    IF i <= Len(s) /\ s[i] \in Digits THEN 1 + DigitRun(s, i + 1) ELSE 0

\* (?P<tz_info>[Zz]|([-+])(\d{2}):(\d{2}))
MatchTz(z) ==
    \/ Len(z) = 1 /\ z[1] \in {"Z", "z"}
    \/ /\ Len(z) = 6
       /\ z[1] \in {"+", "-"}
       /\ IsDigits(z, 2, 2)
       /\ z[4] = ":"
       /\ IsDigits(z, 5, 2)

\* what follows hh:mm:ss in the remainder: (\.\d+)? and then the optional zone
TzPart(rest) ==
    IF rest # <<>> /\ rest[1] = "."
    THEN SubSeq(rest, 2 + DigitRun(rest, 2), Len(rest))
    ELSE rest

\* (?P<remainder>([Tt])\d{2}:\d{2}:\d{2}(\.\d+)?(?P<tz_info>...)?)
MatchRemainder(r) ==
    /\ Len(r) >= 9
    /\ r[1] \in {"T", "t"}
    /\ IsDigits(r, 2, 2)
    /\ r[4] = ":"
    /\ IsDigits(r, 5, 2)
    /\ r[7] = ":"
    /\ IsDigits(r, 8, 2)
    /\ LET rest == SubSeq(r, 10, Len(r))
       IN  /\ (rest # <<>> /\ rest[1] = ".") => DigitRun(rest, 2) >= 1
           /\ TzPart(rest) = <<>> \/ MatchTz(TzPart(rest))

NoMatch ==
    [matched |-> FALSE, year |-> None, month |-> None, day |-> None,
     remainder |-> None, tz_info |-> None]

\* DATETIME_REGEX.match(s): the named groups, None for a group that took no part
DATETIME_REGEX(s) ==
    LET n == Len(s)
        grp(a, b) == SubSeq(s, a, b)
        m(mo, da, re, tz) ==
            [matched |-> TRUE, year |-> Str(grp(1, 4)), month |-> mo, day |-> da,
             remainder |-> re, tz_info |-> tz]
    IN  IF ~IsDigits(s, 1, 4) THEN NoMatch
        ELSE IF n = 4 THEN m(None, None, None, None)
        ELSE IF ~(s[5] = "-" /\ IsDigits(s, 6, 2)) THEN NoMatch
        ELSE IF n = 7 THEN m(Str(grp(6, 7)), None, None, None)
        ELSE IF ~(s[8] = "-" /\ IsDigits(s, 9, 2)) THEN NoMatch
        ELSE IF n = 10 THEN m(Str(grp(6, 7)), Str(grp(9, 10)), None, None)
        ELSE IF ~MatchRemainder(grp(11, n)) THEN NoMatch
        ELSE LET tz == TzPart(grp(20, n))
             IN  m(Str(grp(6, 7)), Str(grp(9, 10)), Str(grp(11, n)),
                   IF tz = <<>> THEN None ELSE Str(tz))

\* the character at position k of a C string: NUL past its end
At(s, k) == IF k <= Len(s) THEN s[k] ELSE "NUL"

\* parse_hh_mm_ss_ff of CPython's _datetimemodule.c (3.7 to 3.10) on s[p .. e-1]:
\* rv 0 = parsed to the end of the string, 1 = parsed with something behind,
\* negative = error.  The character behind the seconds is consumed unseen
\* when the zone follows it directly.
RECURSIVE ParseHhMmSsFf(_, _, _, _, _)
ParseHhMmSsFf(s, p, e, i, vals) ==
    IF ~(At(s, p) \in Digits /\ At(s, p + 1) \in Digits)
    THEN [rv |-> -3, vals |-> vals, us |-> 0]
    ELSE LET c == At(s, p + 2)
             q == p + 3
             got == [vals EXCEPT ![i + 1] = IntOf(SubSeq(s, p, p + 1))]
             frac(f) ==
                 IF ~(e - f \in {3, 6} /\ IsDigits(s, f, e - f))
                 THEN [rv |-> -3, vals |-> got, us |-> 0]
                 ELSE [rv |-> IF At(s, e) # "NUL" THEN 1 ELSE 0, vals |-> got,
                       us |-> IF e - f = 3 THEN 1000 * IntOf(SubSeq(s, f, e - 1))
                              ELSE IntOf(SubSeq(s, f, e - 1))]
         IN  IF q >= e THEN [rv |-> IF c # "NUL" THEN 1 ELSE 0, vals |-> got, us |-> 0]
             ELSE IF c = ":" THEN
                 (IF i < 2 THEN ParseHhMmSsFf(s, q, e, i + 1, got) ELSE frac(q))
             ELSE IF c = "." THEN frac(q)
             ELSE [rv |-> -4, vals |-> got, us |-> 0]

Raise(exc) == [ok |-> FALSE, exc |-> exc]

\* datetime.fromisoformat(s) of CPython 3.7 to 3.10, the interpreters under
\* which "<timestamp>Z+00:00" (line 497) parses; s starts with YYYY-MM-DD and
\* one separator character, as every string that matched the remainder does.
FromIsoformat(s) ==
    LET y == IntOf(SubSeq(s, 1, 4))
        mo == IntOf(SubSeq(s, 6, 7))
        da == IntOf(SubSeq(s, 9, 10))
        ts == SubSeq(s, 12, Len(s))
        tzpos == FirstIn(ts, {"+", "-"})
        e == IF tzpos = 0 THEN Len(ts) + 1 ELSE tzpos
        zs == SubSeq(ts, e + 1, Len(ts))
        sign == IF tzpos # 0 /\ ts[tzpos] = "-" THEN -1 ELSE 1
        combine(tm, tz, offsec) ==
            IF tm.rv < 0 THEN Raise("ValueError")
            ELSE IF tzpos = 0 /\ tm.rv = 1 THEN Raise("ValueError")
            ELSE IF tzpos # 0 /\ (Len(zs) + 1 \notin {6, 9, 16} \/ tz.rv # 0)
                THEN Raise("ValueError")
            ELSE IF tzpos # 0 /\ ~(offsec > -SecondsPerDay /\ offsec < SecondsPerDay)
                THEN Raise("ValueError")
            ELSE IF ~(ValidDate(y, mo, da)
                          /\ ValidTime(tm.vals[1], tm.vals[2], tm.vals[3]))
                THEN Raise("ValueError")
            ELSE [ok |-> TRUE,
                  dt |-> Datetime(y, mo, da, tm.vals[1], tm.vals[2], tm.vals[3], tm.us,
                                  tzpos # 0, IF tzpos # 0 THEN offsec \div 60 ELSE 0)]
        zoned(tm, tz) ==
            combine(tm, tz, sign * (tz.vals[1] * 3600 + tz.vals[2] * 60 + tz.vals[3]))
    IN  zoned(ParseHhMmSsFf(ts, 1, e, 0, <<0, 0, 0>>),
              ParseHhMmSsFf(zs, 1, Len(zs) + 1, 0, <<0, 0, 0>>))

---------------------------------------------------------------------------
(* Search._datetime_to_range *)

\* the leap test read as the calendar's
LeapYearRule_calendar(year) == IsLeap(year)

\* the leap test of lines 520 and 526
LeapYearRule(year) == year % 4 = 0

_datetime_to_range(comp) ==
    LET instant(parsed) ==
            IF parsed.ok THEN [ok |-> TRUE, start |-> parsed.dt, end |-> None]
            ELSE parsed
        coarse(match, year, month, day, start) ==
            IF ~ValidDate(year, month, day) THEN Raise("ValueError")
            ELSE IF match.day # None THEN
                [ok |-> TRUE, start |-> start, end |-> AddDelta(start, 1, -1)]
            ELSE IF match.month # None THEN
                LET end == AddDelta(start, MONTH_DAYS(month), -1)
                IN  [ok |-> TRUE, start |-> start,
                     end |-> IF month = 2 /\ LeapYearRule(year)
                             THEN AddDelta(end, 1, 0) ELSE end]
            ELSE
                LET end == AddDelta(start, 365, -1)
                IN  [ok |-> TRUE, start |-> start,
                     end |-> IF LeapYearRule(year)
                             THEN AddDelta(end, 1, 0) ELSE end]
        dated(match, year, month, day) ==
            coarse(match, year, month, day,
                   Datetime(year, month, day, 0, 0, 0, 0, TRUE, 0))
        matched(match) ==
            IF ~match.matched THEN Raise("ValueError")
            ELSE IF match.remainder # None THEN
                instant(FromIsoformat(
                    IF match.tz_info # None THEN comp
                    ELSE comp \o <<"Z", "+", "0", "0", ":", "0", "0">>))
            ELSE
                dated(match, IntOf(match.year.v),
                      IF match.month = None THEN 1 ELSE IntOf(match.month.v),
                      IF match.day = None THEN 1 ELSE IntOf(match.day.v))
    IN  matched(DATETIME_REGEX(comp))

---------------------------------------------------------------------------
(* Query *)

_QUERY_OPERATOR ==
    <<"eq", "neq", "lt", "lte", "gt", "gte", "startsWith", "endsWith",
      "contains", "in">>

_OPERATOR_MAP ==
    [s \in {"==", "!=", "<", "<=", ">", ">="} |->
        CASE s = "==" -> "eq" [] s = "!=" -> "neq" [] s = "<" -> "lt"
          [] s = "<=" -> "lte" [] s = ">" -> "gt" [] s = ">=" -> "gte"]

Elems(seq) == {seq[i] : i \in 1..Len(seq)}

\* check_operator without the synonym table of lines 120 and 121
check_operator_no_synonyms(v) ==
    IF v.op \notin Elems(_QUERY_OPERATOR)
    THEN [ok |-> FALSE, exc |-> "ValueError", op |-> v.op]
    ELSE [ok |-> TRUE, v |-> [op |-> v.op, value |-> v.value]]

\* Query.check_operator on one (op, value) item of the operator list
check_operator(v) ==
    LET op == IF v.op \in DOMAIN _OPERATOR_MAP THEN _OPERATOR_MAP[v.op] ELSE v.op
    IN  IF op \notin Elems(_QUERY_OPERATOR)
        THEN [ok |-> FALSE, exc |-> "ValueError", op |-> op]
        ELSE [ok |-> TRUE, v |-> [op |-> op, value |-> v.value]]

\* the errors of the items of a list, in item order
RECURSIVE ItemErrors(_)
ItemErrors(rs) ==
    IF rs = <<>> THEN <<>>
    ELSE (IF rs[1].ok THEN <<>> ELSE <<[loc |-> "operator", op |-> rs[1].op]>>)
             \o ItemErrors(Tail(rs))

\* Query(property=property, operator=operator): the pydantic dataclass
\* validates property (str), then every item of operator with check_operator,
\* and raises one ValidationError holding every error it met.
NewQuery(property, operator) ==
    LET checked == [i \in 1..Len(operator) |-> check_operator(operator[i])]
        errs == (IF property.t = "str" THEN <<>> ELSE <<[loc |-> "property", op |-> ""]>>)
                    \o ItemErrors(checked)
    IN  IF errs # <<>> THEN [ok |-> FALSE, exc |-> "ValidationError", errors |-> errs]
        ELSE [ok |-> TRUE,
              v |-> [t |-> "Query", property |-> property,
                     operator |-> [i \in 1..Len(operator) |-> checked[i].v]]]

---------------------------------------------------------------------------
(* Search: the per-field validators *)

Ok(v) == [ok |-> TRUE, v |-> v, log |-> <<>>]

Tuple(v) == [t |-> "tuple", v |-> v]

---------------------------------------------------------------------------
(* SortBy and Field *)

S_asc == Str(<<"a", "s", "c">>)
S_desc == Str(<<"d", "e", "s", "c">>)
S_include == Str(<<"i", "n", "c", "l", "u", "d", "e">>)
S_exclude == Str(<<"e", "x", "c", "l", "u", "d", "e">>)

\* p.startswith(c)
StartsWith(p, c) == Len(p) > 0 /\ p[1] = c

\* sep.join(parts)
RECURSIVE Join(_, _)
Join(parts, sep) ==
    IF parts = <<>> THEN <<>>
    ELSE IF Len(parts) = 1 THEN parts[1]
    ELSE parts[1] \o <<sep>> \o Join(Tail(parts), sep)

\* pydantic's str: a str is kept, a number is coerced, anything else fails
IsStrLike(v) == v.t \in {"str", "int"}

\* str(n) for an int
RECURSIVE Decimal(_)
Decimal(n) ==
    IF n < 0 THEN <<"-">> \o Decimal(-n)
    ELSE IF n < 10 THEN <<DigitChar(n)>>
    ELSE Decimal(n \div 10) \o <<DigitChar(n % 10)>>

StrOf(v) == IF v.t = "int" THEN Str(Decimal(v.v)) ELSE v

\* pydantic's List[str]: a list or tuple whose items all pass str
IsStrList(v) ==
    /\ v.t \in {"list", "tuple"}
    /\ \A i \in 1..Len(v.v) : IsStrLike(v.v[i])

\* SortBy(field=field, direction=direction)
NewSortBy(field, direction) ==
    IF IsStrLike(field) /\ direction \in {S_asc, S_desc}
    THEN [ok |-> TRUE,
          v |-> [t |-> "SortBy", field |-> StrOf(field), direction |-> direction]]
    ELSE Raise("ValidationError")

\* SortBy.__str__ with the sign of line 247 always "+"
SortBy_str_always_plus(sb) == <<"+">> \o sb.field.v

\* SortBy.__str__
SortBy_str(sb) ==
    LET sgn == IF sb.direction = S_asc THEN "+" ELSE "-"
    IN  <<sgn>> \o sb.field.v

\* the SortBy one token of the compact string stands for, lines 270 to 276
SortToken(p) ==
    IF StartsWith(p, "-") THEN NewSortBy(Str(Tail(p)), S_desc).v
    ELSE IF StartsWith(p, "+") THEN NewSortBy(Str(Tail(p)), S_asc).v
    ELSE NewSortBy(Str(p), S_asc).v

\* the emptiness test of lines 263 and 339 without its part == "" half
IsEmptyAttribute_none_only(part) == part = None

\* part is None or part == ""
IsEmptyAttribute(part) == part = None \/ part.v = <<>>

\* SortBy.from_string with every unsigned token read as descending
SortBy_from_string_bare_desc(part) ==
    IF IsEmptyAttribute(part) THEN Raise("EmptyAttributeError")
    ELSE [ok |-> TRUE,
          v |-> [i \in 1..Len(Split(part.v, ",")) |->
                    IF StartsWith(Split(part.v, ",")[i], "+")
                    THEN SortToken(Split(part.v, ",")[i])
                    ELSE SortToken(<<"-">> \o Split(part.v, ",")[i])]]

\* SortBy.from_string
SortBy_from_string(part) ==
    IF IsEmptyAttribute(part) THEN Raise("EmptyAttributeError")
    ELSE [ok |-> TRUE,
          v |-> [i \in 1..Len(Split(part.v, ",")) |-> SortToken(Split(part.v, ",")[i])]]

\* Field(field_type=field_type, fields=fields)
NewField(field_type, fields) ==
    IF field_type \in {S_include, S_exclude} /\ IsStrList(fields)
    THEN [ok |-> TRUE,
          v |-> [t |-> "Field", field_type |-> field_type,
                 fields |-> [i \in 1..Len(fields.v) |-> StrOf(fields.v[i])]]]
    ELSE Raise("ValidationError")

\* Field.__str__
Field_str(f) ==
    LET sgn == IF f.field_type = S_include THEN "+" ELSE "-"
    IN  Join([i \in 1..Len(f.fields) |-> <<sgn>> \o f.fields[i].v], ",")

\* the bucket of a field string without the tokens that name nothing
Bucket_named(tokens, excluded) ==
    LET stripped(field) == IF StartsWith(field, "-") \/ StartsWith(field, "+")
                           THEN Tail(field) ELSE field
        upto[i \in 0..Len(tokens)] ==
            IF i = 0 THEN <<>>
            ELSE upto[i - 1]
                     \o (IF StartsWith(tokens[i], "-") = excluded /\ stripped(tokens[i]) # <<>>
                         THEN <<Str(stripped(tokens[i]))>> ELSE <<>>)
    IN  upto[Len(tokens)]

\* the tokens of a field string that go to one bucket, prefixes stripped,
\* lines 345 to 353
RECURSIVE Bucket(_, _)
Bucket(tokens, excluded) ==
    IF tokens = <<>> THEN <<>>
    ELSE LET field == tokens[1]
             stripped == IF StartsWith(field, "-") \/ StartsWith(field, "+")
                         THEN Tail(field) ELSE field
         IN  (IF StartsWith(field, "-") = excluded THEN <<Str(stripped)>> ELSE <<>>)
                 \o Bucket(Tail(tokens), excluded)

\* Field.from_string with the two buckets returned as (exclude, include)
Field_from_string_exclude_first(fields) ==
    IF IsEmptyAttribute(fields) THEN Raise("EmptyAttributeError")
    ELSE LET pair(includes, excludes) ==
                 [ok |-> TRUE,
                  v |-> Tuple(<<IF Len(excludes) > 0
                                THEN NewField(S_exclude, [t |-> "list", v |-> excludes]).v
                                ELSE None,
                                IF Len(includes) > 0
                                THEN NewField(S_include, [t |-> "list", v |-> includes]).v
                                ELSE None>>)]
         IN  pair(Bucket(Split(fields.v, ","), FALSE), Bucket(Split(fields.v, ","), TRUE))

\* Field.from_string
Field_from_string(fields) ==
    IF IsEmptyAttribute(fields) THEN Raise("EmptyAttributeError")
    ELSE LET pair(includes, excludes) ==
                 IF Len(includes) = 0 /\ Len(excludes) = 0 THEN Raise("ValueError")
                 ELSE [ok |-> TRUE,
                       v |-> Tuple(<<IF Len(includes) > 0
                                     THEN NewField(S_include,
                                                   [t |-> "list", v |-> includes]).v
                                     ELSE None,
                                     IF Len(excludes) > 0
                                     THEN NewField(S_exclude,
                                                   [t |-> "list", v |-> excludes]).v
                                     ELSE None>>)]
         IN  pair(Bucket(Split(fields.v, ","), FALSE), Bucket(Split(fields.v, ","), TRUE))

---------------------------------------------------------------------------
(* Search: the per-field validators, continued *)

\* search_type: Literal["api", "static"]
ValidateSearchType(v) ==
    IF v \in {Str(<<"a", "p", "i">>), Str(<<"s", "t", "a", "t", "i", "c">>)}
    THEN Ok(v) ELSE Raise("WrongConstantError")

Num(n) == [t |-> "int", v |-> n]

\* float(x) for an int
Float(x) == [t |-> "float", v |-> x.v]

\* bbox: Optional[BBox], a tuple of 4 or of 6 floats (no validator of its own)
ValidateBBox(v) ==
    IF v = None THEN Ok(None)
    ELSE IF v.t \notin {"list", "tuple"} THEN Raise("TupleError")
    ELSE IF Len(v.v) \notin {4, 6} THEN Raise("TupleLengthError")
    ELSE IF \E i \in 1..Len(v.v) : v.v[i].t \notin {"int", "float"} THEN Raise("FloatError")
    ELSE Ok(Tuple([i \in 1..Len(v.v) |-> Float(v.v[i])]))

\* Search._intersects_to_geojson.  GeoJSON.to_instance is the geometry
\* collaborator: a mapping becomes a geometry that is valid or not, or stays
\* a plain mapping without is_valid when it names no geometry type.
_intersects_to_geojson(v) ==
    IF v = None THEN Ok(None)
    ELSE IF v.t # "GeoJSON" THEN
        IF v.shape = "untyped" \/ v.shape = "invalid" THEN Raise("ValueError")
        ELSE Ok([t |-> "GeoJSON", geom |-> v.geom, shape |-> v.shape])
    ELSE Ok(v)

\* the swap test turned off
StartsBefore_never(a, b) == FALSE

\* the swap test with <= for <
StartsBefore_or_equal(a, b) == NotAfter(a, b)

\* a < b on two datetimes of a range; the swap test of lines 612 and 645
StartsBefore(a, b) == Before(a, b)

\* RangeOf with line 620 lost: a switched range always ends at the first start
RangeOf_ends_at_start(first, second) ==
    IF Before(second.start, first.start)
    THEN [ok |-> TRUE, log |-> <<"invalid datetime range, start must be before end, switching values">>,
          v |-> Tuple(<<second.start, first.start>>)]
    ELSE Ok(Tuple(<<first.start,
                    IF second.end # None THEN second.end ELSE second.start>>))

\* RangeOf with "end or backup_end" of line 622 read as backup_end
RangeOf_ends_at_backup(first, second) ==
    IF Before(second.start, first.start)
    THEN [ok |-> TRUE, log |-> <<"invalid datetime range, start must be before end, switching values">>,
          v |-> IF first.end = None
                THEN Tuple(<<second.start, first.start>>)
                ELSE Tuple(<<second.start, first.end>>)]
    ELSE Ok(Tuple(<<first.start, second.start>>))

\* RangeOf with "end or backup_end" of line 622 read as end
RangeOf_no_fallback(first, second) ==
    IF Before(second.start, first.start)
    THEN [ok |-> TRUE, log |-> <<"invalid datetime range, start must be before end, switching values">>,
          v |-> IF first.end = None
                THEN Tuple(<<second.start, first.start>>)
                ELSE Tuple(<<second.start, first.end>>)]
    ELSE Ok(Tuple(<<first.start, second.end>>))

\* the range of a "first/second" string, lines 610 to 622
RangeOf(first, second) ==
    LET start == first.start
        backup_start == first.end
        backup_end == second.start
        end == second.end
    IN  IF StartsBefore(backup_end, start)
        THEN [ok |-> TRUE, log |-> <<"invalid datetime range, start must be before end, switching values">>,
              v |-> IF backup_start = None
                    THEN Tuple(<<backup_end, start>>)
                    ELSE Tuple(<<backup_end, backup_start>>)]
        ELSE Ok(Tuple(<<start, IF end # None THEN end ELSE backup_end>>))

\* the length test that lets a third value through
NotTwoValues_below(n) == n < 2

\* "datetime range must be max 2 values", lines 605 and 632
NotTwoValues(n) == n # 2

\* Search._validate_datetime
_validate_datetime(datetime) ==
    IF datetime = None THEN Ok(None)
    ELSE IF datetime.t = "str" THEN
        LET datetimes == Split(datetime.v, "/")
            \* one _datetime_to_range per component, in order
            ranges == [i \in 1..Len(datetimes) |-> _datetime_to_range(datetimes[i])]
        IN  IF Contains(datetime.v, "/") THEN
                IF NotTwoValues(Len(datetimes)) THEN Raise("ValueError")
                ELSE IF ~ranges[1].ok THEN ranges[1]
                ELSE IF ~ranges[2].ok THEN ranges[2]
                ELSE RangeOf(ranges[1], ranges[2])
            ELSE
                IF ranges[1].ok
                THEN Ok(Tuple(<<ranges[1].start, ranges[1].end>>))
                ELSE ranges[1]
    ELSE IF datetime.t = "datetime" THEN Ok(Tuple(<<datetime, None>>))
    ELSE IF datetime.t = "tuple" THEN
        LET n == Len(datetime.v)
            tup == IF n = 1 THEN <<datetime.v[1], None>> ELSE datetime.v
        IN  IF n # 1 /\ NotTwoValues(n) THEN Raise("ValueError")
            ELSE IF tup[1].t # "datetime" THEN Raise("ValueError")
            ELSE IF tup[2] # None /\ tup[2].t # "datetime" THEN Raise("ValueError")
            ELSE IF tup[2] # None /\ ~Comparable(tup[1], tup[2]) THEN Raise("TypeError")
            ELSE IF tup[2] # None /\ StartsBefore(tup[2], tup[1])
                THEN [ok |-> TRUE, log |-> <<"invalid datetime range, start must be before end, switching values">>,
                      v |-> Tuple(<<tup[2], tup[1]>>)]
            ELSE Ok(Tuple(tup))
    ELSE Raise("ValueError")

\* Search._covert_ids, for ids and for collections
_covert_ids(v) ==
    IF v = None THEN Ok(None)
    ELSE IF v.t = "str" THEN
        IF Contains(v.v, ",")
        THEN Ok([t |-> "list", v |-> [i \in 1..Len(Split(v.v, ",")) |-> Str(Split(v.v, ",")[i])]])
        ELSE Ok([t |-> "list", v |-> <<v>>])
    ELSE IF v.t = "list" THEN Ok(v)
    ELSE Raise("ValueError")

\* Filter(op=op, args=args): op a str, args a list
NewFilter(op, fargs) ==
    IF op.t # "str" \/ fargs.t # "list" THEN Raise("ValidationError")
    ELSE Ok([t |-> "Filter", op |-> op, args |-> fargs])

\* Search._convert_filter
_convert_filter(filter) ==
    IF filter = None THEN Ok(None)
    ELSE IF filter.t = "Filter" THEN Ok(filter)
    ELSE IF filter.t # "str" THEN
        IF filter.t \notin {"tuple", "list"} THEN Raise("ValueError")
        ELSE IF Len(filter.v) # 2 THEN Raise("ValueError")
        ELSE NewFilter(filter.v[1], filter.v[2])
    ELSE Ok(filter)

\* the members of types.CQL2, and FilterLang = Literal[CQL2.TEXT, CQL2.JSON]
CQL2 == [TEXT |-> [t |-> "CQL2", value |-> "cql2-text"],
         JSON |-> [t |-> "CQL2", value |-> "cql2-json"]]

ValidateFilterLang(v) ==
    IF v = None THEN Ok(None)
    ELSE IF v \in {CQL2.TEXT, CQL2.JSON} THEN Ok(v)
    ELSE Raise("WrongConstantError")

\* limit: Optional[int]
ValidateLimit(v) ==
    IF v = None THEN Ok(None)
    ELSE IF v.t = "int" THEN Ok(v)
    ELSE Raise("IntegerError")

DEFAUL_LIMIT == 100

List(v) == [t |-> "list", v |-> v]

\* Query(property=property, operator=operator) on values of any kind: the
\* property has to be a str and the operator a list of (op, value) items
QueryOf(property, operator) ==
    LET made(r) == IF r.ok THEN Ok(r.v) ELSE Raise("ValidationError")
    IN  IF property.t # "str" THEN Raise("ValidationError")
        ELSE IF operator.t \notin {"list", "tuple"} THEN Raise("ValidationError")
        ELSE IF \E i \in 1..Len(operator.v) : "op" \notin DOMAIN operator.v[i]
        THEN Raise("ValidationError")
        ELSE made(NewQuery(property, operator.v))

\* one item q of a query list, lines 730 to 733: a Query is kept, anything
\* else is read as q[0] and q[1]
QueryItem(q) ==
    IF q.t = "Query" THEN Ok(q)
    ELSE IF q.t \in {"tuple", "list"} THEN
        (IF Len(q.v) < 2 THEN Raise("IndexError") ELSE QueryOf(q.v[1], q.v[2]))
    ELSE IF q.t = "str" THEN
        (IF Len(q.v) < 2 THEN Raise("IndexError") ELSE Raise("ValidationError"))
    ELSE Raise("TypeError")

\* the loop of lines 729 to 733: the first item that raises ends it
RECURSIVE QueryItems(_)
QueryItems(items) ==
    LET chain(head, rest) ==
            IF ~head.ok THEN head
            ELSE IF ~rest.ok THEN rest
            ELSE Ok(List(<<head.v>> \o rest.v.v))
    IN  IF items = <<>> THEN Ok(List(<<>>))
        ELSE IF ~QueryItem(items[1]).ok THEN QueryItem(items[1])
        ELSE chain(QueryItem(items[1]), QueryItems(Tail(items)))

\* Search._convert_query
_convert_query(queries) ==
    LET one(r) == IF r.ok THEN Ok(List(<<r.v>>)) ELSE r
        tried(single) == IF single.ok THEN one(single) ELSE QueryItems(queries.v)
    IN  IF queries = None THEN Ok(None)
        ELSE IF queries.t = "list" THEN
            tried(IF Len(queries.v) >= 2 THEN QueryOf(queries.v[1], queries.v[2])
                  ELSE Raise("IndexError"))
        ELSE IF queries.t = "Query" THEN Ok(List(<<queries>>))
        ELSE IF queries.t = "tuple" THEN
            (IF Len(queries.v) # 2 THEN Raise("ValueError")
             ELSE one(QueryOf(queries.v[1], queries.v[2])))
        ELSE Raise("ValueError")


\* SortBysOf with only the first field of an entry kept
SortBysOf_first_only(fields, direction) ==
    IF \E i \in 1..Len(fields) : ~NewSortBy(fields[i], direction).ok
    THEN Raise("ValidationError")
    ELSE [ok |-> TRUE,
          v |-> [i \in 1..(IF Len(fields) > 0 THEN 1 ELSE 0) |->
                    NewSortBy(fields[i], direction).v]]

\* one SortBy(field=f, direction=direction) per field of an entry, lines 845
\* to 861; the first one that does not validate raises
SortBysOf(fields, direction) ==
    IF \E i \in 1..Len(fields) : ~NewSortBy(fields[i], direction).ok
    THEN Raise("ValidationError")
    ELSE [ok |-> TRUE,
          v |-> [i \in 1..Len(fields) |-> NewSortBy(fields[i], direction).v]]

\* the body of the loop of line 835 for one item sortby[i]
SortByItem(item) ==
    IF item.t = "SortBy" THEN [ok |-> TRUE, v |-> <<item>>]
    ELSE IF item.t \in {"tuple", "list"} THEN
        IF Len(item.v) # 2 THEN Raise("ValueError")
        ELSE IF item.v[2].t = "str" THEN
            IF Contains(item.v[2].v, ",")
            THEN SortBysOf([i \in 1..Len(Split(item.v[2].v, ",")) |->
                               Str(Split(item.v[2].v, ",")[i])], item.v[1])
            ELSE SortBysOf(<<item.v[2]>>, item.v[1])
        ELSE IF item.v[2].t \in {"list", "tuple"} THEN SortBysOf(item.v[2].v, item.v[1])
        ELSE Raise("ValueError")
    ELSE Raise("ValueError")

\* the loop of line 835: the items in order, stopped by the first raise
RECURSIVE SortByItems(_)
SortByItems(items) ==
    IF items = <<>> THEN [ok |-> TRUE, v |-> <<>>]
    ELSE LET chain(head, rest) ==
                 IF ~head.ok THEN head
                 ELSE IF ~rest.ok THEN rest
                 ELSE [ok |-> TRUE, v |-> head.v \o rest.v]
         IN  chain(SortByItem(items[1]), SortByItems(Tail(items)))

\* Search._convert_sortby
_convert_sortby(sortby) ==
    IF sortby = None THEN Ok(None)
    ELSE IF sortby.t = "str" THEN
        LET parsed(r) == IF r.ok THEN Ok(List(r.v)) ELSE r
        IN  parsed(SortBy_from_string(sortby))
    ELSE IF sortby.t = "SortBy" THEN Ok(List(<<sortby>>))
    ELSE IF sortby.t \notin {"list", "tuple"} THEN Raise("TypeError")
    ELSE
        LET looped(r) == IF r.ok THEN Ok(List(r.v)) ELSE r
            tried(single) ==
                IF single.ok THEN Ok(List(<<single.v>>))
                ELSE looped(SortByItems(sortby.v))
        IN  tried(IF Len(sortby.v) >= 2
                  THEN NewSortBy(sortby.v[2], sortby.v[1])
                  ELSE Raise("IndexError"))

\* (field, None) for an include directive and (None, field) for an exclude
\* one, lines 897 to 900 and 907 to 910
OwnSide(field) ==
    IF field.field_type = S_include THEN Tuple(<<field, None>>)
    ELSE Tuple(<<None, field>>)

\* lines 938 to 941 with the pair left in the order it was given
InOrder_as_given(first_preprocess, second_preprocess) ==
    Tuple(<<first_preprocess, second_preprocess>>)

\* lines 938 to 941: the include directive first
InOrder(first_preprocess, second_preprocess) ==
    IF first_preprocess.field_type = S_include
    THEN Tuple(<<first_preprocess, second_preprocess>>)
    ELSE Tuple(<<second_preprocess, first_preprocess>>)

\* the body of the loop of line 918 for one element of the pair
FieldItem(field) ==
    IF field.t = "Field" THEN [ok |-> TRUE, v |-> field]
    ELSE IF field.t \notin {"tuple", "list"} THEN Raise("ValueError")
    ELSE IF Len(field.v) # 2 THEN Raise("ValueError")
    ELSE NewField(field.v[1], field.v[2])

\* Search._convert_fields
_convert_fields(fields) ==
    IF fields = None THEN Ok(None)
    ELSE IF fields.t = "str" THEN
        LET parsed(r) == IF r.ok THEN Ok(r.v) ELSE r
        IN  parsed(Field_from_string(fields))
    ELSE IF fields.t = "Field" THEN Ok(OwnSide(fields))
    ELSE IF fields.t \in {"tuple", "list"} THEN
        LET paired(first, second) ==
                IF ~first.ok THEN first
                ELSE IF ~second.ok THEN second
                ELSE IF first.v.field_type = second.v.field_type THEN Raise("ValueError")
                ELSE Ok(InOrder(first.v, second.v))
            tried(single) ==
                IF single.ok THEN Ok(OwnSide(single.v))
                ELSE IF Len(fields.v) # 2 THEN Raise("ValueError")
                ELSE paired(FieldItem(fields.v[1]), FieldItem(fields.v[2]))
        IN  tried(IF Len(fields.v) >= 2
                  THEN NewField(fields.v[1], fields.v[2])
                  ELSE Raise("IndexError"))
    ELSE Raise("ValueError")

---------------------------------------------------------------------------
(* Search: construction *)

FieldNames ==
    <<"search_type", "bbox", "intersects", "datetime", "ids", "collections",
      "query", "filter", "filter_lang", "sort_by", "fields", "limit">>

\* the outcome of every field's validators on the keyword arguments a
FieldResults(a) ==
    [search_type |-> ValidateSearchType(a.search_type),
     bbox |-> ValidateBBox(a.bbox),
     intersects |-> _intersects_to_geojson(a.intersects),
     datetime |-> _validate_datetime(a.datetime),
     ids |-> _covert_ids(a.ids),
     collections |-> _covert_ids(a.collections),
     query |-> _convert_query(a.query),
     filter |-> _convert_filter(a.filter),
     filter_lang |-> ValidateFilterLang(a.filter_lang),
     sort_by |-> _convert_sortby(a.sort_by),
     fields |-> _convert_fields(a.fields),
     limit |-> ValidateLimit(a.limit)]

\* _validate_positioning without line 573: the warning, but bbox kept
_validate_positioning_keeps_bbox(v) ==
    IF v.intersects # None /\ v.bbox # None
    THEN [v |-> v,
          log |-> <<"bbox and intersects are mutually exclusive, bbox ignored">>]
    ELSE [v |-> v, log |-> <<>>]

\* Search._validate_positioning on the validated values (v.get gives None
\* for a field whose validation failed)
_validate_positioning(v) ==
    IF v.intersects # None /\ v.bbox # None
    THEN [v |-> [v EXCEPT !.bbox = None],
          log |-> <<"bbox and intersects are mutually exclusive, bbox ignored">>]
    ELSE [v |-> v, log |-> <<>>]

\* _validate_filter_lang without the filter_lang test of line 796
_validate_filter_lang_always(v) ==
    IF v.filter # None
    THEN IF v.filter.t = "str"
         THEN [v EXCEPT !.filter_lang = Str(<<"c", "q", "l", "2", "-", "t", "e", "x", "t">>)]
         ELSE [v EXCEPT !.filter_lang = Str(<<"c", "q", "l", "2", "-", "j", "s", "o", "n">>)]
    ELSE v

\* Search._validate_filter_lang
_validate_filter_lang(v) ==
    IF v.filter_lang = None /\ v.filter # None
    THEN IF v.filter.t = "str"
         THEN [v EXCEPT !.filter_lang = Str(<<"c", "q", "l", "2", "-", "t", "e", "x", "t">>)]
         ELSE [v EXCEPT !.filter_lang = Str(<<"c", "q", "l", "2", "-", "j", "s", "o", "n">>)]
    ELSE v

RECURSIVE FailedFields(_, _)
FailedFields(res, names) ==
    IF names = <<>> THEN <<>>
    ELSE (IF res[names[1]].ok THEN <<>> ELSE <<names[1]>>)
             \o FailedFields(res, Tail(names))

RECURSIVE FieldLogs(_, _)
FieldLogs(res, names) ==
    IF names = <<>> THEN <<>>
    ELSE (IF res[names[1]].ok THEN res[names[1]].log ELSE <<>>)
             \o FieldLogs(res, Tail(names))

\* the exceptions pydantic does not turn into a validation error: it
\* catches ValueError, TypeError and AssertionError (its own errors are
\* among them) and lets every other exception leave the constructor
Uncaught == {"EmptyAttributeError", "IndexError", "AttributeError", "OverflowError"}

\* position in names of the first field whose validator raised an exception
\* pydantic does not catch, or 0
FirstUncaught(res, names) ==
    IF \E k \in 1..Len(names) : ~res[names[k]].ok /\ res[names[k]].exc \in Uncaught
    THEN CHOOSE k \in 1..Len(names) :
             /\ ~res[names[k]].ok /\ res[names[k]].exc \in Uncaught
             /\ \A j \in 1..(k - 1) :
                    res[names[j]].ok \/ res[names[j]].exc \notin Uncaught
    ELSE 0

\* Search(**a): pydantic validates every field in declaration order, keeps
\* the values that passed, runs both root validators on them in definition
\* order whatever failed, and raises one ValidationError if anything failed.
\* An exception it does not catch leaves the constructor at once.
NewSearch(a) ==
    LET outcome(res, positioned, final, failed) ==
            [ok |-> failed = <<>>,
             v |-> [f \in DOMAIN final \cup {"t"} |->
                       IF f = "t" THEN "Search" ELSE final[f]],
             errors |-> failed,
             exc |-> IF failed = <<>> THEN None ELSE Str(<<"ValidationError">>),
             log |-> FieldLogs(res, FieldNames) \o positioned.log]
        rooted(res, positioned) ==
            outcome(res, positioned, _validate_filter_lang(positioned.v),
                    FailedFields(res, FieldNames))
        validated(res, k) ==
            IF k > 0
            THEN [ok |-> FALSE, v |-> None, errors |-> <<>>,
                  exc |-> Str(<<res[FieldNames[k]].exc>>),
                  log |-> FieldLogs(res, SubSeq(FieldNames, 1, k - 1))]
            ELSE rooted(res, _validate_positioning(
                                 [f \in DOMAIN res |->
                                     IF res[f].ok THEN res[f].v ELSE None]))
        started(res) == validated(res, FirstUncaught(res, FieldNames))
    IN  started(FieldResults(a))

---------------------------------------------------------------------------
(* Search: dict, get_request, post_request *)

\* a value returned
Return(v) == [ok |-> TRUE, v |-> v]

\* a plain dict: m maps its keys to its values
Dict(m) == [t |-> "dict", m |-> m]

\* {}
EmptyDict == <<>>

\* Entry that also leaves out a limit equal to the default
Entry_unless_default(k, present, v) ==
    IF present /\ v # Num(DEFAUL_LIMIT) THEN k :> v ELSE EmptyDict

\* {k: v} if present, nothing otherwise
Entry(k, present, v) == IF present THEN k :> v ELSE EmptyDict

\* date.max.toordinal()
MAXORDINAL == Ymd2Ord(9999, 12, 31)

\* the year, month and day of a proleptic Gregorian ordinal (_ord2ymd)
OrdYear(n) ==
    CHOOSE y \in ((n - 1) \div 366 + 1)..((n - 1) \div 365 + 1) :
        DaysBeforeYear(y) < n /\ n <= DaysBeforeYear(y + 1)

OrdMonth(y, k) ==
    CHOOSE m \in 1..12 :
        DaysBeforeMonth(y, m) < k /\ k <= DaysBeforeMonth(y, m) + DaysInMonth(y, m)

\* datetime.isoformat("T") of a naive datetime: the fraction only when the
\* microsecond is not 0
isoformat(d, s, us) ==
    LET dated(y, k) ==
            Fmt(y, 4) \o <<"-">> \o Fmt(OrdMonth(y, k), 2) \o <<"-">>
                \o Fmt(k - DaysBeforeMonth(y, OrdMonth(y, k)), 2)
        year(y) == dated(y, d - DaysBeforeYear(y))
    IN  year(OrdYear(d)) \o <<"T">>
            \o Fmt(s \div 3600, 2) \o <<":">> \o Fmt((s % 3600) \div 60, 2)
            \o <<":">> \o Fmt(s % 60, 2)
            \o (IF us # 0 THEN <<".">> \o Fmt(us, 6) ELSE <<>>)

\* Search._to_utc_isoformat.  astimezone reads a naive datetime in the
\* system's local zone, whose offset is local minutes; an instant outside
\* the years 1 to 9999 raises OverflowError.
_to_utc_isoformat(dt, local) ==
    LET text(utc) ==
            IF utc.d \notin 1..MAXORDINAL THEN Raise("OverflowError")
            ELSE Return(Str(isoformat(utc.d, utc.s, utc.us) \o <<"Z">>))
    IN  text(Utc([dt EXCEPT !.off = IF dt.aware THEN dt.off ELSE local]))

\* Query.dict keeping the first item of an operator
Query_dict_first_kept(q) ==
    LET first(op) == CHOOSE i \in 1..Len(q.operator) :
                         /\ q.operator[i].op = op
                         /\ \A j \in 1..(i - 1) : q.operator[j].op # op
    IN  Dict(q.property :>
                 Dict([op \in {q.operator[i].op : i \in 1..Len(q.operator)} |->
                          q.operator[first(op)].value]))

\* Query.dict: {property: {op: value}}, a later item of an operator
\* replacing an earlier one
Query_dict(q) ==
    LET last(op) == CHOOSE i \in 1..Len(q.operator) :
                        /\ q.operator[i].op = op
                        /\ \A j \in (i + 1)..Len(q.operator) : q.operator[j].op # op
    IN  Dict(q.property :>
                 Dict([op \in {q.operator[i].op : i \in 1..Len(q.operator)} |->
                          q.operator[last(op)].value]))

\* Filter.dict
Filter_dict(f) == Dict(("op" :> f.op) @@ ("args" :> f.args))

\* SortBy.dict
SortBy_dict(sb) == Dict(("field" :> sb.field) @@ ("direction" :> sb.direction))

\* Field.dict
Field_dict(f) == Dict(f.field_type :> List(f.fields))

\* obj.dict() for the dataclasses of the module; a plain dict has no
\* attribute dict
ObjDict(obj) ==
    IF obj.t = "Query" THEN Return(Query_dict(obj))
    ELSE IF obj.t = "Filter" THEN Return(Filter_dict(obj))
    ELSE IF obj.t = "SortBy" THEN Return(SortBy_dict(obj))
    ELSE IF obj.t = "Field" THEN Return(Field_dict(obj))
    ELSE Raise("AttributeError")

\* utils.merge_schemas_dict: merged.update(obj.dict()) for every obj
RECURSIVE Merged(_, _)
Merged(objs, merged) ==
    IF objs = <<>> THEN Return(Dict(merged))
    ELSE IF ~ObjDict(objs[1]).ok THEN ObjDict(objs[1])
    ELSE Merged(Tail(objs), ObjDict(objs[1]).v.m @@ merged)

\* merge_schemas_dict updating with the objects last to first
merge_schemas_dict_first_kept(objs) ==
    Merged([i \in 1..Len(objs) |-> objs[Len(objs) + 1 - i]], EmptyDict)

merge_schemas_dict(objs) == Merged(objs, EmptyDict)

\* json.loads(geojson_dumps(g)): the mapping of the geometry
GeoMapping(g) == Dict("type" :> g.geom)

\* geojson_dumps(g): its JSON text
GeoText(g) == Str(<<"{", "type", ":", g.geom, "}">>)

\* the value of out["datetime"], lines 962 to 971
DatetimeText(datetime, local) ==
    LET both(first, second) ==
            IF ~first.ok THEN first
            ELSE IF ~second.ok THEN second
            ELSE Return(Str(first.v.v \o <<"/">> \o second.v.v))
    IN  IF datetime.v[1] = None THEN _to_utc_isoformat(datetime.v[2], local)
        ELSE IF datetime.v[2] = None THEN _to_utc_isoformat(datetime.v[1], local)
        ELSE both(_to_utc_isoformat(datetime.v[1], local),
                  _to_utc_isoformat(datetime.v[2], local))

\* the value of out["fields"], lines 991 to 997: the two mappings are
\* handed to merge_schemas_dict, which calls dict() on each
FieldsValue(fields) ==
    IF fields.v[1] # None /\ fields.v[2] # None
    THEN merge_schemas_dict(<<Field_dict(fields.v[1]), Field_dict(fields.v[2])>>)
    ELSE IF fields.v[1] # None THEN Return(Field_dict(fields.v[1]))
    ELSE Return(Field_dict(fields.v[2]))

\* Search.dict
Search_dict(self, local) ==
    LET out(datetime, queries, fields) ==
            IF ~datetime.ok THEN datetime
            ELSE IF ~queries.ok THEN queries
            ELSE IF ~fields.ok THEN fields
            ELSE Return(
                Entry("bbox", self.bbox # None, self.bbox)
                @@ Entry("intersects", self.intersects # None, GeoMapping(self.intersects))
                @@ Entry("datetime", self.datetime # None, datetime.v)
                @@ Entry("ids", self.ids # None, self.ids)
                @@ Entry("collections", self.collections # None, self.collections)
                @@ Entry("query", self.query # None, queries.v)
                @@ Entry("filter", self.filter # None,
                         IF self.filter.t = "str" THEN self.filter
                         ELSE Filter_dict(self.filter))
                @@ Entry("filter-lang", self.filter_lang # None, self.filter_lang)
                @@ Entry("sortby", self.sort_by # None,
                         List([i \in 1..Len(self.sort_by.v) |->
                                  SortBy_dict(self.sort_by.v[i])]))
                @@ Entry("fields",
                         self.fields # None
                             /\ (self.fields.v[1] # None \/ self.fields.v[2] # None),
                         fields.v)
                @@ Entry("limit", self.limit # None, self.limit))
    IN  out(IF self.datetime # None THEN DatetimeText(self.datetime, local)
            ELSE Return(None),
            IF self.query # None THEN merge_schemas_dict(self.query.v)
            ELSE Return(None),
            IF self.fields # None /\ (self.fields.v[1] # None \/ self.fields.v[2] # None)
            THEN FieldsValue(self.fields) ELSE Return(None))

\* str(x) for a float that holds a whole number
FloatStr(x) == Decimal(x.v) \o <<".", "0">>

\* get_request without the joins of lines 1009 to 1014
get_request_lists_kept(self, local) ==
    Search_dict(self, local)

\* Search.get_request
get_request(self, local) ==
    LET params(d) ==
            IF ~d.ok THEN d
            ELSE Return(
                Entry("bbox", "bbox" \in DOMAIN d.v,
                      Str(Join([i \in 1..Len(self.bbox.v) |-> FloatStr(self.bbox.v[i])], ",")))
                @@ Entry("ids", "ids" \in DOMAIN d.v,
                         Str(Join([i \in 1..Len(self.ids.v) |-> self.ids.v[i].v], ",")))
                @@ Entry("collections", "collections" \in DOMAIN d.v,
                         Str(Join([i \in 1..Len(self.collections.v) |->
                                      self.collections.v[i].v], ",")))
                @@ Entry("intersects", "intersects" \in DOMAIN d.v, GeoText(self.intersects))
                @@ Entry("sortby", "sortby" \in DOMAIN d.v /\ self.sort_by # None,
                         Str(Join([i \in 1..Len(self.sort_by.v) |->
                                      SortBy_str(self.sort_by.v[i])], ",")))
                @@ Entry("fields", "fields" \in DOMAIN d.v /\ self.fields # None,
                         IF self.fields.v[1] # None /\ self.fields.v[2] # None
                         THEN Str(Join(<<Field_str(self.fields.v[1]),
                                         Field_str(self.fields.v[2])>>, ","))
                         ELSE IF self.fields.v[1] # None THEN Str(Field_str(self.fields.v[1]))
                         ELSE Str(Field_str(self.fields.v[2])))
                @@ d.v)
    IN  params(Search_dict(self, local))

\* post_request with the search_type of the Search added to the mapping
post_request_with_search_type(self, local) ==
    LET typed(d) == IF d.ok THEN Return(("search_type" :> self.search_type) @@ d.v) ELSE d
    IN  typed(Search_dict(self, local))

\* Search.post_request
post_request(self, local) == Search_dict(self, local)

\* the keys of dict() whose values are mutable objects of the Search
\* itself, or hold one: the lists of ids and collections (lines 974 and
\* 976), the args list of a Filter (Filter.dict) and the name list of a
\* Field (Field.dict)
Search_dict_shared(self) ==
    {k \in {"ids", "collections"} : self[k] # None}
        \cup (IF self.filter.t = "Filter" THEN {"filter"} ELSE {})
        \cup (IF self.fields # None
                  /\ (self.fields.v[1] = None) # (self.fields.v[2] = None)
              THEN {"fields"} ELSE {})

\* copy.deepcopy: the copy shares no mutable object with the original
deepcopy(shared) == {}

\* what the mapping of get_request shares with the Search, line 1008
get_request_shared(self) == deepcopy(Search_dict_shared(self))

\* post_request returning self.dict() itself
post_request_shared_no_copy(self) == Search_dict_shared(self)

\* what the mapping of post_request shares with the Search, line 1036
post_request_shared(self) == deepcopy(Search_dict_shared(self))

\* the three serializers by name
Serialize(method, self, local) ==
    CASE method = "dict" -> Search_dict(self, local)
      [] method = "get_request" -> get_request(self, local)
      [] method = "post_request" -> post_request(self, local)

SharedBy(method, self) ==
    CASE method = "dict" -> Search_dict_shared(self)
      [] method = "get_request" -> get_request_shared(self)
      [] method = "post_request" -> post_request_shared(self)

\* an assignment to an attribute that goes through
Search_setattr_thawed(self, name, value) ==
    [ok |-> TRUE, self |-> [self EXCEPT ![name] = value]]

\* Search.__setattr__ of the frozen dataclass, line 370
Search_setattr(self, name, value) ==
    [ok |-> FALSE, exc |-> "FrozenInstanceError", self |-> self]

\* what a caller appends to a list it was given
Extra == Str(<<"x">>)

\* the keys of a returned mapping whose value a caller can change in place
MutableKeys(out) ==
    {k \in DOMAIN out \cap {"ids", "collections", "sortby", "filter", "fields"} :
        out[k].t \in {"list", "dict"}}

\* the value under key k of a returned mapping after an append to its list
Changed(k, v) ==
    IF k = "filter" THEN [v EXCEPT !.m["args"] = List(Append(v.m["args"].v, Extra))]
    ELSE IF k = "fields"
    THEN Dict([key \in DOMAIN v.m |-> List(Append(v.m[key].v, Extra))])
    ELSE List(Append(v.v, Extra))

\* the Search after the same append, when the list is its own
Touched(self, k) ==
    IF k = "filter"
    THEN [self EXCEPT !.filter = [self.filter EXCEPT
                                      !.args = List(Append(self.filter.args.v, Extra))]]
    ELSE IF k = "fields"
    THEN [self EXCEPT !.fields =
             Tuple([i \in 1..2 |->
                       IF self.fields.v[i] = None THEN None
                       ELSE [self.fields.v[i] EXCEPT
                                 !.fields = Append(self.fields.v[i].fields, Extra)]])]
    ELSE [self EXCEPT ![k] = List(Append(self[k].v, Extra))]

---------------------------------------------------------------------------
(* Inputs *)

\* years after 2016 that the inputs cover, besides the century years
YearSpan == 4

Years == {1900, 2000, 2100, 9999} \cup (2016..(2016 + YearSpan))

Lit(y) == Fmt(y, 4)

YearStrings == {Lit(y) : y \in Years \cup {0}}

MonthStrings == {Lit(y) \o <<"-">> \o Fmt(m, 2) : y \in Years, m \in 0..13}

DayStrings ==
    {Lit(y) \o <<"-">> \o Fmt(m, 2) \o <<"-">> \o Fmt(d, 2) :
        y \in Years, m \in {1, 2, 4, 12}, d \in {0, 1, 15, 28, 29, 30, 31, 32}}

\* hh:mm:ss
Clock(hh, mm, ss) == Fmt(hh, 2) \o <<":">> \o Fmt(mm, 2) \o <<":">> \o Fmt(ss, 2)

Zones ==
    {<<>>, <<"Z">>, <<"+", "0", "0", ":", "0", "0">>, <<"+", "0", "1", ":", "0", "0">>,
     <<"-", "0", "1", ":", "3", "0">>, <<"+", "1", "0", ":", "0", "0">>,
     <<"+", "2", "4", ":", "0", "0">>}

Stamp(y, m, d, clock, zone) ==
    Lit(y) \o <<"-">> \o Fmt(m, 2) \o <<"-">> \o Fmt(d, 2) \o <<"T">> \o clock \o zone

TimestampStrings ==
    {Stamp(y, 1, 1, c, z) :
        y \in {2018, 2019},
        c \in {Clock(0, 0, 0), Clock(10, 0, 0), Clock(22, 59, 59), Clock(24, 0, 0),
               Clock(12, 30, 45) \o <<".", "5", "0", "0">>,
               Clock(12, 30, 45) \o <<".", "5">>},
        z \in Zones}

MalformedStrings ==
    {<<>>, <<"n", "o", "t", "h", "i", "n", "g">>,
     <<"2", "0", "1", "8", ".", "0", "1", ".", "0", "1">>,
     <<"2", "0", "1", "8", "-", "1">>, <<"2", "0", "1">>,
     <<"2", "0", "1", "8", "-", "0", "1", "-", "0", "1", " ", "1", "0", ":", "0", "0", ":", "0", "0">>,
     <<"2", "0", "1", "8", "-", "0", "1", "-", "0", "1", "T", "1", "0", ":", "0", "0">>,
     <<"2", "0", "1", "8", "-", "0", "1", "-", "0", "1", "T", "1", "0", ":", "0", "0", ":", "0", "0", "+", "0", "1">>}

Components ==
    YearStrings \cup MonthStrings \cup DayStrings \cup TimestampStrings
        \cup MalformedStrings

\* longest operator list of a Query
MaxOps == 2

Symbols == Elems(_QUERY_OPERATOR) \cup DOMAIN _OPERATOR_MAP \cup {"wrong", "="}

OperatorItems == {[op |-> o, value |-> x] : o \in Symbols, x \in {2, 3}}

OperatorLists == UNION {[1..n -> OperatorItems] : n \in 0..MaxOps}

Properties == {Str(<<"b", "b", "o", "x">>), [t |-> "dict"]}

\* longest tuple given as datetime
MaxTuple == 3

S_api == Str(<<"a", "p", "i">>)

SearchTypes == {S_api, Str(<<"s", "t", "a", "t", "i", "c">>), Str(<<"w", "e", "b">>)}

BBoxes ==
    {None,
     [t |-> "list", v |-> <<Num(-180), Num(-90), Num(180), Num(90)>>],
     [t |-> "tuple", v |-> <<Num(-180), Num(-90), Num(0), Num(180), Num(90), Num(100)>>],
     [t |-> "list", v |-> <<Num(-180), Num(-90), Num(180), Num(90), Num(0)>>],
     [t |-> "list", v |-> <<Num(-180), Num(-90), Num(180), Str(<<"a">>)>>]}

IntersectsInputs ==
    {None,
     [t |-> "dict", geom |-> "Polygon", shape |-> "valid"],
     [t |-> "dict", geom |-> "Polygon", shape |-> "invalid"],
     [t |-> "dict", geom |-> "none", shape |-> "untyped"],
     [t |-> "GeoJSON", geom |-> "Point", shape |-> "valid"],
     [t |-> "GeoJSON", geom |-> "Point", shape |-> "invalid"]}

S_and == Str(<<"a", "n", "d">>)

FilterArgs == [t |-> "list", v |-> <<[t |-> "dict"]>>]

FilterInputs ==
    {None,
     Str(<<"i", "d", "=", "'", "x", "'">>),
     [t |-> "Filter", op |-> S_and, args |-> FilterArgs],
     [t |-> "tuple", v |-> <<S_and, FilterArgs>>],
     [t |-> "list", v |-> <<S_and, FilterArgs>>],
     [t |-> "tuple", v |-> <<[t |-> "dict"], FilterArgs>>],
     [t |-> "tuple", v |-> <<S_and, FilterArgs, FilterArgs>>],
     [t |-> "list", v |-> <<S_and>>],
     [t |-> "int"]}

FilterLangInputs ==
    {None, CQL2.TEXT, CQL2.JSON, Str(<<"c", "q", "l", "2", "-", "t", "e", "x", "t">>)}

Slash == <<"/">>

\* the two sides of the range strings
RangeParts ==
    {Lit(y) : y \in Years}
        \cup {Lit(y) \o <<"-">> \o Fmt(m, 2) : y \in {2017, 2018, 2019, 2020}, m \in {1, 2, 6, 7}}
        \cup {Lit(y) \o <<"-">> \o Fmt(m, 2) \o <<"-">> \o Fmt(d, 2) :
                 y \in {2018, 2019}, m \in {1}, d \in {1, 31}}
        \cup {Stamp(y, 1, 1, c, z) :
                 y \in {2018, 2019},
                 c \in {Clock(0, 0, 0), Clock(10, 0, 0)},
                 z \in {<<>>, <<"+", "0", "1", ":", "0", "0">>, <<"Z">>}}
        \cup {<<>>, <<"n", "o", "t", "h", "i", "n", "g">>}

RangeStrings ==
    {a \o Slash \o b : a, b \in RangeParts}
        \cup {a \o Slash \o a \o Slash \o a : a \in {Lit(2018), Lit(2019)}}

\* datetime instances: two naive ones and two aware ones
Instants ==
    {Datetime(2020, 1, 1, 0, 0, 0, 0, FALSE, 0),
     Datetime(2019, 1, 1, 0, 0, 0, 0, FALSE, 0),
     Datetime(2018, 1, 1, 0, 0, 0, 0, TRUE, 0),
     Datetime(2018, 1, 1, 0, 30, 0, 0, TRUE, 60)}

TupleElements == Instants \cup {None, Str(Lit(2018))}

DatetimeTuples ==
    {Tuple(v) : v \in UNION {[1..n -> TupleElements] : n \in 0..MaxTuple}}

DatetimeInputs ==
    {Str(c) : c \in Components \cup RangeStrings}
        \cup Instants \cup DatetimeTuples
        \cup {[t |-> "int"], [t |-> "list", v |-> <<>>]}

\* Search(search_type="api") with every other argument at its default
DefaultArgs ==
    [search_type |-> S_api, bbox |-> None, intersects |-> None, datetime |-> None,
     ids |-> None, collections |-> None, query |-> None, filter |-> None,
     filter_lang |-> None, sort_by |-> None, fields |-> None,
     limit |-> Num(DEFAUL_LIMIT)]

\* calls that vary the positioning and the filter arguments
PositioningArgs ==
    {[DefaultArgs EXCEPT !.search_type = st, !.bbox = b, !.intersects = i,
                         !.filter = f, !.filter_lang = fl, !.datetime = dt] :
        st \in SearchTypes, b \in BBoxes, i \in IntersectsInputs,
        f \in FilterInputs, fl \in FilterLangInputs,
        dt \in {None, Str(Lit(2019) \o Slash \o Lit(2018)),
                Str(<<"n", "o", "t", "h", "i", "n", "g">>)}}

\* calls that vary datetime
DatetimeArgs == {[DefaultArgs EXCEPT !.datetime = dt] : dt \in DatetimeInputs}

\* calls that vary ids, collections and limit
IdsInputs ==
    {None, Str(<<"1">>), Str(<<"1", ",", "2">>),
     [t |-> "list", v |-> <<Str(<<"1">>), Str(<<"2">>)>>], [t |-> "int"]}

IdsArgs ==
    {[DefaultArgs EXCEPT !.ids = i, !.collections = c, !.limit = l] :
        i \in IdsInputs, c \in IdsInputs,
        l \in {None, Num(DEFAUL_LIMIT), Num(10),
               Str(<<"a">>)}}

\* field names of the sort and field directives, signs and a comma included
MaxName == 1

Letters == {<<"a">>, <<"b">>}

Names ==
    {<<>>} \cup UNION {[1..n -> {"a", "b"}] : n \in 1..MaxName}
        \cup {<<"-", "a">>, <<"+", "b">>, <<"a", ",", "b">>}

\* tokens of a compact sort or field string
Tokens == {<<>>} \cup {sg \o l : sg \in {<<>>, <<"+">>, <<"-">>}, l \in Letters}

MaxTokens == 3

CompactStrings ==
    {Join(ts, ",") : ts \in UNION {[1..n -> Tokens] : n \in 1..MaxTokens}}

ParserInputs == {None} \cup {Str(c) : c \in CompactStrings}

SortBys == {NewSortBy(Str(f), d).v : f \in Names, d \in {S_asc, S_desc}}

MaxSort == 2

SortByLists == UNION {[1..n -> SortBys] : n \in 0..MaxSort}

\* the entries of a sort_by list: (direction, fields) pairs, well formed
\* or not, and a SortBy
SortEntries ==
    {Tuple(<<S_asc, Str(<<"a", ",", "b">>)>>),
     Tuple(<<S_desc, List(<<Str(<<"b">>), Str(<<"a">>)>>)>>),
     List(<<S_desc, Str(<<"b">>)>>),
     Tuple(<<S_asc, Tuple(<<>>)>>),
     Tuple(<<Str(<<"u", "p">>), Str(<<"a">>)>>),
     Tuple(<<S_asc, Num(5)>>),
     Tuple(<<S_asc>>),
     NewSortBy(Str(<<"a">>), S_desc).v,
     Str(<<"a">>)}

MaxEntries == 2

SortByInputs ==
    {None, Str(<<>>), Str(<<"-", "a", ",", "+", "b">>), Str(<<"a">>),
     NewSortBy(Str(<<"b">>), S_asc).v, Tuple(<<S_asc, Str(<<"a">>)>>), Num(1)}
        \cup {List(es) : es \in UNION {[1..n -> SortEntries] : n \in 0..MaxEntries}}

\* calls that vary sort_by
SortByArgs ==
    {[DefaultArgs EXCEPT !.sort_by = sb, !.ids = i] :
        sb \in SortByInputs, i \in {None, Str(<<"1", ",", "2">>)}}

Field_a == NewField(S_include, List(<<Str(<<"a">>)>>)).v
Field_b == NewField(S_exclude, List(<<Str(<<"b">>), Str(<<"a">>)>>)).v

\* the elements of a fields pair: directives, (type, names) pairs, and
\* values that are neither
FieldItems ==
    {Field_a, Field_b,
     NewField(S_include, List(<<Str(<<"b">>)>>)).v,
     Tuple(<<S_include, List(<<Str(<<"a">>)>>)>>),
     List(<<S_exclude, List(<<Str(<<"b">>)>>)>>),
     Tuple(<<Str(<<"o", "n", "l", "y">>), List(<<Str(<<"a">>)>>)>>),
     Tuple(<<S_include>>),
     Str(<<"a">>)}

FieldsInputs ==
    {None, Str(<<>>), Str(<<"-", "a", ",", "b">>), Str(<<"+", "a">>), Str(<<"-", "b">>),
     Field_a, Field_b,
     Tuple(<<S_include, List(<<Str(<<"a">>)>>)>>),
     List(<<S_exclude, List(<<Str(<<"a">>)>>)>>),
     Tuple(<<Field_a>>), Tuple(<<Field_a, Field_b, Field_a>>), Num(1)}
        \cup {Tuple(<<x, y>>) : x, y \in FieldItems}
        \cup {List(<<x, y>>) : x, y \in {Field_a, Field_b}}

\* calls that vary fields, with and without sort_by
FieldsArgs ==
    {[DefaultArgs EXCEPT !.fields = f, !.sort_by = sb] :
        f \in FieldsInputs,
        sb \in {None, Str(<<"-", "a", ",", "+", "b">>), Str(<<>>)}}

\* query arguments: a (property, operator) pair as a tuple or as a list,
\* lists of pairs and of Query objects, and shapes that are none of them
Ops_eq == List(<<[op |-> "==", value |-> 2]>>)
Ops_two == List(<<[op |-> "==", value |-> 2], [op |-> "eq", value |-> 3]>>)
Ops_wrong == List(<<[op |-> "wrong", value |-> 2]>>)
Query_a == NewQuery(Str(<<"a">>), <<[op |-> "lt", value |-> 3]>>).v

QueryInputs ==
    {None,
     Query_a,
     Tuple(<<Str(<<"a">>), Ops_eq>>),
     Tuple(<<Str(<<"a">>), Ops_two>>),
     Tuple(<<Str(<<"a">>), Ops_wrong>>),
     Tuple(<<Str(<<"a">>), Ops_eq, Ops_eq>>),
     Tuple(<<Ops_eq, Str(<<"a">>)>>),
     List(<<Str(<<"a">>), Ops_eq>>),
     List(<<Str(<<"a">>), Ops_wrong>>),
     List(<<Str(<<"b", "b", "o", "x">>), Ops_wrong>>),
     List(<<>>),
     List(<<Tuple(<<Str(<<"a">>), Ops_eq>>)>>),
     List(<<Tuple(<<Str(<<"a">>), Ops_eq>>), Tuple(<<Str(<<"b">>), Ops_two>>)>>),
     List(<<Tuple(<<Str(<<"a">>), Ops_eq>>), Tuple(<<Str(<<"a">>), Ops_two>>)>>),
     List(<<Query_a, Tuple(<<Str(<<"b">>), Ops_eq>>)>>),
     List(<<Query_a, Query_a>>),
     List(<<Tuple(<<Str(<<"a">>), Ops_eq>>), Tuple(<<Str(<<"b">>), Ops_wrong>>)>>),
     List(<<Tuple(<<Str(<<"a">>)>>)>>),
     List(<<[t |-> "int"], Query_a>>),
     Str(<<"a">>),
     [t |-> "int"]}

\* calls that vary query, with and without a filter
QueryArgs ==
    {[DefaultArgs EXCEPT !.query = q, !.filter = f] :
        q \in QueryInputs, f \in {None, Str(<<"i", "d", "=", "'", "x", "'">>)}}

\* the calls of the model, group by group
SearchArgs ==
    <<PositioningArgs, DatetimeArgs, IdsArgs, SortByArgs, FieldsArgs, QueryArgs>>

---------------------------------------------------------------------------
(* State machine *)

Init ==
    /\ component = None
    /\ range = None
    /\ qargs = None
    /\ query = None
    /\ qerror = <<>>
    /\ args = None
    /\ search = None
    /\ error = <<>>
    /\ raised = None
    /\ log = <<>>
    /\ call = None
    /\ ret = None
    /\ request = None
    /\ earlier = None
    /\ alias = {}
    /\ held = None
    /\ attempt = None

\* the one call of Search._datetime_to_range of a run
DatetimeToRange ==
    /\ component = None
    /\ \E c \in Components :
           /\ component' = Str(c)
           /\ range' = _datetime_to_range(c)
           /\ UNCHANGED <<qargs, query, qerror, args, search, error, raised, log, call, ret, request,
                   earlier, alias, held, attempt>>

NextRange == DatetimeToRange

SpecRange == Init /\ [][NextRange]_vars

\* the one call of Query(property=..., operator=[...]) of a run
ConstructQuery ==
    /\ qargs = None
    /\ \E p \in Properties, ops \in OperatorLists :
           LET r == NewQuery(p, ops)
           IN  /\ qargs' = [property |-> p, operator |-> ops]
               /\ query' = IF r.ok THEN r.v ELSE None
               /\ qerror' = IF r.ok THEN <<>> ELSE r.errors
               /\ UNCHANGED <<component, range, args, search, error, raised, log, call, ret, request,
                   earlier, alias, held, attempt>>

\* one call of Query.dict on the constructed Query
QueryDict ==
    /\ query # None
    /\ call = None
    /\ call' = [f |-> "Query.dict", arg |-> query]
    /\ ret' = Return(Query_dict(query))
    /\ UNCHANGED <<component, range, qargs, query, qerror, args, search, error,
                   raised, log, request, earlier, alias, held, attempt>>

NextQuery == ConstructQuery \/ QueryDict

SpecQuery == Init /\ [][NextQuery]_vars

\* one call of SortBy.from_string
SortByFromString ==
    /\ call = None
    /\ \E part \in ParserInputs :
           /\ call' = [f |-> "SortBy.from_string", arg |-> part]
           /\ ret' = SortBy_from_string(part)
           /\ UNCHANGED <<component, range, qargs, query, qerror, args, search, error,
                          raised, log, request,
                   earlier, alias, held, attempt>>

\* one call of Field.from_string
FieldFromString ==
    /\ call = None
    /\ \E fields \in ParserInputs :
           /\ call' = [f |-> "Field.from_string", arg |-> fields]
           /\ ret' = Field_from_string(fields)
           /\ UNCHANGED <<component, range, qargs, query, qerror, args, search, error,
                          raised, log, request,
                   earlier, alias, held, attempt>>

\* SortBy.from_string(",".join(str(sb) for sb in sort_by)), the string of
\* line 1018 parsed back
SortByRoundTrip ==
    /\ call = None
    /\ \E sort_by \in SortByLists :
           /\ call' = [f |-> "SortBy.round_trip", arg |-> sort_by]
           /\ ret' = SortBy_from_string(
                         Str(Join([i \in 1..Len(sort_by) |-> SortBy_str(sort_by[i])], ",")))
           /\ UNCHANGED <<component, range, qargs, query, qerror, args, search, error,
                          raised, log, request,
                   earlier, alias, held, attempt>>

\* longest list handed to merge_schemas_dict
MaxObjs == 3

MergeOperators ==
    {<<[op |-> "eq", value |-> 2]>>,
     <<[op |-> "eq", value |-> 3]>>,
     <<[op |-> "lt", value |-> 2], [op |-> ">", value |-> 3]>>}

\* objects with a dict() method, and one without
MergeObjects ==
    {NewQuery(p, ops).v : p \in {Str(<<"a">>), Str(<<"b">>)}, ops \in MergeOperators}
        \cup {NewField(S_include, List(<<Str(<<"x">>)>>)).v,
              NewField(S_include, List(<<Str(<<"y">>)>>)).v,
              NewField(S_exclude, List(<<Str(<<"y">>)>>)).v,
              Dict(Str(<<"a">>) :> Num(1))}

MergeInputs == UNION {[1..n -> MergeObjects] : n \in 0..MaxObjs}

\* one call of merge_schemas_dict
MergeSchemas ==
    /\ call = None
    /\ \E objs \in MergeInputs :
           /\ call' = [f |-> "merge_schemas_dict", arg |-> objs]
           /\ ret' = merge_schemas_dict(objs)
           /\ UNCHANGED <<component, range, qargs, query, qerror, args, search, error,
                          raised, log, request, earlier, alias, held, attempt>>

NextMerge == MergeSchemas

SpecMerge == Init /\ [][NextMerge]_vars

NextParse == SortByFromString \/ FieldFromString \/ SortByRoundTrip

SpecParse == Init /\ [][NextParse]_vars

\* the one call of Search(...) of a run
Construct ==
    /\ args = None
    /\ \E g \in 1..Len(SearchArgs) : \E a \in SearchArgs[g] :
           LET r == NewSearch(a)
           IN  /\ args' = a
               /\ search' = IF r.ok THEN r.v ELSE None
               /\ error' = r.errors
               /\ raised' = r.exc
               /\ log' = r.log
               /\ UNCHANGED <<component, range, qargs, query, qerror, call, ret, request,
                   earlier, alias, held, attempt>>

\* the offsets from UTC, in minutes, of the local zones a run may have
LocalOffsets == {-300, 0, 60}

\* search.dict()
SearchDict ==
    /\ search # None
    /\ request = None
    /\ \E local \in LocalOffsets :
           request' = [method |-> "dict", local |-> local, out |-> Search_dict(search, local)]
    /\ alias' = IF request'.out.ok THEN Search_dict_shared(search) ELSE {}
    /\ UNCHANGED <<component, range, qargs, query, qerror, args, search, error, raised, log,
                   call, ret, earlier, held, attempt>>

\* search.get_request()
GetRequest ==
    /\ search # None
    /\ request = None
    /\ \E local \in LocalOffsets :
           request' = [method |-> "get_request", local |-> local,
                       out |-> get_request(search, local)]
    /\ alias' = IF request'.out.ok THEN get_request_shared(search) ELSE {}
    /\ UNCHANGED <<component, range, qargs, query, qerror, args, search, error, raised, log,
                   call, ret, earlier, held, attempt>>

\* search.post_request()
PostRequest ==
    /\ search # None
    /\ request = None
    /\ \E local \in LocalOffsets :
           request' = [method |-> "post_request", local |-> local,
                       out |-> post_request(search, local)]
    /\ alias' = IF request'.out.ok THEN post_request_shared(search) ELSE {}
    /\ UNCHANGED <<component, range, qargs, query, qerror, args, search, error, raised, log,
                   call, ret, earlier, held, attempt>>

Next == Construct \/ SearchDict \/ GetRequest \/ PostRequest

Spec == Init /\ [][Next]_vars

\* a second call of a serializer on the same Search, in the same process
SerializeAgain ==
    /\ search # None
    /\ request # None
    /\ earlier = None
    /\ \E method \in {"dict", "get_request", "post_request"} :
           /\ request' = [method |-> method, local |-> request.local,
                          out |-> Serialize(method, search, request.local)]
           /\ alias' = IF request'.out.ok THEN SharedBy(method, search) ELSE {}
    /\ earlier' = request
    /\ UNCHANGED <<component, range, qargs, query, qerror, args, search, error, raised, log,
                   call, ret, held, attempt>>

\* search.name = value
SetAttr ==
    /\ search # None
    /\ attempt = None
    /\ \E name \in {"search_type", "ids"} :
           LET value == Str(<<"s", "t", "a", "t", "i", "c">>)
               r == Search_setattr(search, name, value)
           IN  /\ attempt' = [name |-> name, value |-> value,
                              exc |-> IF r.ok THEN "" ELSE r.exc]
               /\ search' = r.self
    /\ UNCHANGED <<component, range, qargs, query, qerror, args, error, raised, log,
                   call, ret, request, earlier, alias, held>>

\* the caller appends to a list of the mapping the last call returned
Mutate ==
    /\ search # None
    /\ request # None
    /\ request.out.ok
    /\ earlier = None
    /\ held = None
    /\ \E k \in MutableKeys(request.out.v) :
           /\ held' = [request.out.v EXCEPT ![k] = Changed(k, request.out.v[k])]
           /\ search' = IF k \in alias THEN Touched(search, k) ELSE search
    /\ UNCHANGED <<component, range, qargs, query, qerror, args, error, raised, log,
                   call, ret, request, earlier, alias, attempt>>

NextFrozen ==
    Construct \/ SearchDict \/ GetRequest \/ PostRequest \/ SerializeAgain \/ SetAttr
        \/ Mutate

SpecFrozen == Init /\ [][NextFrozen]_vars

---------------------------------------------------------------------------
(* Properties *)

Called == args # None
Built == search # None
Failed == Called /\ search = None

S_text == Str(<<"c", "q", "l", "2", "-", "t", "e", "x", "t">>)
S_json == Str(<<"c", "q", "l", "2", "-", "j", "s", "o", "n">>)

BBoxWarning == "bbox and intersects are mutually exclusive, bbox ignored"
SwitchWarning == "invalid datetime range, start must be before end, switching values"

\* C1: a constructed Search never has both bbox and intersects; given both,
\* bbox is None and intersects is the validated geometry.
C1_BBoxIntersectsExclusive ==
    Built =>
        /\ ~(search.bbox # None /\ search.intersects # None)
        /\ (args.bbox # None /\ args.intersects # None) =>
               /\ search.bbox = None
               /\ search.intersects =
                      [t |-> "GeoJSON", geom |-> args.intersects.geom,
                       shape |-> args.intersects.shape]

C1_Witness ==
    /\ Built
    /\ args.bbox # None
    /\ args.intersects # None
    /\ args.intersects.t = "dict"
    /\ search.bbox = None
    /\ search.intersects # None
    /\ BBoxWarning \in Elems(log)

\* C2: with a filter and no filter_lang, filter_lang is "cql2-text" for a
\* string filter and "cql2-json" for a Filter or a 2-element tuple or list
\* (stored as a Filter); a given filter_lang is kept; with neither it stays
\* None; so a filter always comes with a filter_lang.
C2_FilterLangInferred ==
    Built =>
        /\ (args.filter # None /\ args.filter_lang = None) =>
               search.filter_lang = IF args.filter.t = "str" THEN S_text ELSE S_json
        /\ args.filter.t \in {"tuple", "list"} => search.filter.t = "Filter"
        /\ args.filter.t \in {"str", "Filter"} => search.filter = args.filter
        /\ args.filter_lang # None => search.filter_lang = args.filter_lang
        /\ (args.filter = None /\ args.filter_lang = None) => search.filter_lang = None
        /\ search.filter # None => search.filter_lang # None

C2_Witness ==
    /\ Built
    /\ args.filter.t = "list"
    /\ args.filter_lang = None
    /\ search.filter.t = "Filter"
    /\ search.filter_lang = S_json

\* the two datetimes of a tuple given as datetime, when it holds two
TwoDatetimes(v) ==
    /\ v.t = "tuple"
    /\ Len(v.v) = 2
    /\ v.v[1].t = "datetime"
    /\ v.v[2].t = "datetime"

\* C3: a two-ended datetime of a constructed Search has start <= end, and a
\* 2-tuple given start after end is stored with its elements swapped.
C3_RangeOrdered ==
    Built /\ search.datetime # None =>
        /\ search.datetime.v[2] # None =>
               /\ Comparable(search.datetime.v[1], search.datetime.v[2])
               /\ NotAfter(search.datetime.v[1], search.datetime.v[2])
        /\ (TwoDatetimes(args.datetime)
                /\ Before(args.datetime.v[2], args.datetime.v[1])) =>
               search.datetime.v = <<args.datetime.v[2], args.datetime.v[1]>>

C3_Witness ==
    /\ Built
    /\ TwoDatetimes(args.datetime)
    /\ Before(args.datetime.v[2], args.datetime.v[1])
    /\ search.datetime.v = <<args.datetime.v[2], args.datetime.v[1]>>
    /\ SwitchWarning \in Elems(log)

\* a "first/second" string given as datetime
IsRangeString(v) == v.t = "str" /\ Len(Split(v.v, "/")) = 2

\* what _datetime_to_range makes of the two sides of args.datetime
First == _datetime_to_range(Split(args.datetime.v, "/")[1])
Second == _datetime_to_range(Split(args.datetime.v, "/")[2])

Utc0(y, m, d, hh, mm, ss) == Datetime(y, m, d, hh, mm, ss, 0, TRUE, 0)

Range_2019_2018 == Str(Lit(2019) \o Slash \o Lit(2018))

\* C4: for "A/B" with B's start before A's start, the result is
\* (B.start, A.end) for a coarse A and (B.start, A.instant) for a timestamp
\* A; "2019/2018" gives (2018-01-01T00:00:00Z, 2019-12-31T23:59:59Z).
C4_SwitchedRange ==
    Built /\ IsRangeString(args.datetime) =>
        /\ Before(Second.start, First.start) =>
               search.datetime.v =
                   <<Second.start, IF First.end # None THEN First.end ELSE First.start>>
        /\ args.datetime = Range_2019_2018 =>
               search.datetime.v =
                   <<Utc0(2018, 1, 1, 0, 0, 0), Utc0(2019, 12, 31, 23, 59, 59)>>

C4_Witness ==
    /\ Built
    /\ args.datetime = Range_2019_2018
    /\ search.datetime.v[1] = Utc0(2018, 1, 1, 0, 0, 0)
    /\ search.datetime.v[2] = Utc0(2019, 12, 31, 23, 59, 59)
    /\ SwitchWarning \in Elems(log)

Switched == SwitchWarning \in Elems(log)

\* the expanded end of a side: its end, or the instant itself
ExpandedEnd(side) == IF side.end # None THEN side.end ELSE side.start

\* C5 as stated: "A/B" is switched exactly when A's expanded end precedes
\* B's expanded start, and is (A.start, B.end or B.start) otherwise.
C5_SwitchWhenFirstEndPrecedes ==
    Built /\ IsRangeString(args.datetime) =>
        /\ Switched <=> Before(ExpandedEnd(First), Second.start)
        /\ ~Switched => search.datetime.v = <<First.start, ExpandedEnd(Second)>>

\* C5 amended: "A/B" is switched exactly when B's start precedes A's start,
\* giving (B.start, A.end or A.start); otherwise it is
\* (A.start, B.end or B.start).
C5_SwitchWhenSecondStartPrecedes ==
    Built /\ IsRangeString(args.datetime) =>
        /\ Switched <=> Before(Second.start, First.start)
        /\ Switched => search.datetime.v = <<Second.start, ExpandedEnd(First)>>
        /\ ~Switched => search.datetime.v = <<First.start, ExpandedEnd(Second)>>

\* a range whose first side ends before the second starts, left as given
C5_Witness ==
    /\ Built
    /\ IsRangeString(args.datetime)
    /\ Before(ExpandedEnd(First), Second.start)
    /\ ~Switched
    /\ search.datetime.v = <<First.start, ExpandedEnd(Second)>>

\* C6: for "A/B" with B's start not before A's start, equal included, there
\* is no switch and the result is (A.start, B.end) for a coarse B and
\* (A.start, B.instant) for a timestamp B; "2017-06/2017-07" and
\* "2018/2019-01" give the ranges of the docstring.
C6_UnswitchedRange ==
    Built /\ IsRangeString(args.datetime) =>
        /\ ~Before(Second.start, First.start) =>
               /\ ~Switched
               /\ search.datetime.v =
                      <<First.start, IF Second.end # None THEN Second.end ELSE Second.start>>
        /\ args.datetime = Str(Lit(2017) \o <<"-", "0", "6">> \o Slash
                                   \o Lit(2017) \o <<"-", "0", "7">>) =>
               search.datetime.v =
                   <<Utc0(2017, 6, 1, 0, 0, 0), Utc0(2017, 7, 31, 23, 59, 59)>>
        /\ args.datetime = Str(Lit(2018) \o Slash \o Lit(2019) \o <<"-", "0", "1">>) =>
               search.datetime.v =
                   <<Utc0(2018, 1, 1, 0, 0, 0), Utc0(2019, 1, 31, 23, 59, 59)>>

\* the tie: a timestamp first side at the very start of a coarse second side
C6_Witness ==
    /\ Built
    /\ IsRangeString(args.datetime)
    /\ First.end = None
    /\ Second.end # None
    /\ SameInstant(First.start, Second.start)
    /\ ~Switched
    /\ search.datetime.v = <<First.start, Second.end>>

\* the year, month and day a coarse date string names (1 where it names none)
CoarseYear == IntOf(SubSeq(component.v, 1, 4))
CoarseMonth == IF Len(component.v) >= 7 THEN IntOf(SubSeq(component.v, 6, 7)) ELSE 1
CoarseDay == IF Len(component.v) = 10 THEN IntOf(SubSeq(component.v, 9, 10)) ELSE 1

\* the last day of the period a coarse date string names
LastDay ==
    IF Len(component.v) = 4 THEN Ymd2Ord(CoarseYear, 12, 31)
    ELSE IF Len(component.v) = 7
        THEN Ymd2Ord(CoarseYear, CoarseMonth, DaysInMonth(CoarseYear, CoarseMonth))
    ELSE Ymd2Ord(CoarseYear, CoarseMonth, CoarseDay)

\* C7: for every coarse date string, century years included,
\* _datetime_to_range gives the first second of the period and 23:59:59 UTC
\* on the last calendar day of that same period.
C7_CoarseEndsOnLastDay ==
    (component # None /\ range.ok /\ Len(component.v) <= 10) =>
        /\ range.start = Utc0(CoarseYear, CoarseMonth, CoarseDay, 0, 0, 0)
        /\ range.end # None
        /\ range.end = [range.start EXCEPT !.d = LastDay, !.s = SecondsPerDay - 1]

\* the input is a single instant: a timestamp string, a datetime, a tuple of
\* one, or a tuple whose second element is None
SingleInstant(v) ==
    \/ v.t = "str" /\ ~Contains(v.v, "/") /\ Len(v.v) > 10
    \/ v.t = "datetime"
    \/ v.t = "tuple" /\ Len(v.v) = 1
    \/ v.t = "tuple" /\ Len(v.v) = 2 /\ v.v[2] = None

\* the instant a string YYYY-MM-DDThh:mm:ss without offset names, in UTC
StampInstant(st) ==
    Utc0(IntOf(SubSeq(st, 1, 4)), IntOf(SubSeq(st, 6, 7)), IntOf(SubSeq(st, 9, 10)),
         IntOf(SubSeq(st, 12, 13)), IntOf(SubSeq(st, 15, 16)), IntOf(SubSeq(st, 18, 19)))

\* C8: the end of a constructed Search's datetime is None exactly for a
\* single-instant input; coarse date strings and "/" ranges have an end; the
\* start of a single instant is the instant given (UTC for a timestamp
\* string without offset).
C8_EndNoneIffSingleInstant ==
    Built /\ search.datetime # None =>
        /\ search.datetime.v[2] = None <=> SingleInstant(args.datetime)
        /\ args.datetime.t = "datetime" => search.datetime.v[1] = args.datetime
        /\ (args.datetime.t = "tuple" /\ SingleInstant(args.datetime)) =>
               search.datetime.v[1] = args.datetime.v[1]
        /\ (args.datetime.t = "str" /\ SingleInstant(args.datetime)
                /\ Len(args.datetime.v) = 19) =>
               search.datetime.v[1] = StampInstant(args.datetime.v)

C8_Witness ==
    /\ Built
    /\ args.datetime.t = "str"
    /\ Len(args.datetime.v) = 19
    /\ search.datetime.v[2] = None
    /\ search.datetime.v[1] = StampInstant(args.datetime.v)

\* a datetime argument that C9 says must fail
MustFail(v) ==
    \/ v.t = "str" /\ Len(Split(v.v, "/")) > 2
    \/ v.t = "str" /\ \E i \in 1..Len(Split(v.v, "/")) :
                          ~DATETIME_REGEX(Split(v.v, "/")[i]).matched
    \/ v.t = "tuple" /\ Len(v.v) > 2
    \/ v.t = "tuple" /\ Len(v.v) >= 1 /\ v.v[1].t # "datetime"
    \/ v.t = "tuple" /\ Len(v.v) >= 2 /\ v.v[2].t \notin {"datetime", "None"}
    \/ v.t \notin {"str", "datetime", "tuple", "None"}

Canonical(sym) ==
    CASE sym = "==" -> "eq" [] sym = "!=" -> "neq" [] sym = "<" -> "lt"
      [] sym = "<=" -> "lte" [] sym = ">" -> "gt" [] sym = ">=" -> "gte"
      [] OTHER -> sym

CanonicalNames ==
    {"eq", "neq", "lt", "lte", "gt", "gte", "startsWith", "endsWith", "contains", "in"}

\* C10: a constructed Query stores only canonical operator names: synonyms
\* replaced, canonical names kept (checking a stored item again changes
\* nothing), values and order preserved; a symbol that is neither makes the
\* construction fail with an error naming it.
C10_OperatorsCanonical ==
    /\ query # None =>
           /\ Len(query.operator) = Len(qargs.operator)
           /\ \A i \in 1..Len(query.operator) :
                  /\ query.operator[i].op \in CanonicalNames
                  /\ query.operator[i].op = Canonical(qargs.operator[i].op)
                  /\ query.operator[i].value = qargs.operator[i].value
                  /\ check_operator(query.operator[i]).ok
                  /\ check_operator(query.operator[i]).v = query.operator[i]
    /\ qargs # None =>
           \A i \in 1..Len(qargs.operator) :
               Canonical(qargs.operator[i].op) \notin CanonicalNames =>
                   /\ query = None
                   /\ [loc |-> "operator", op |-> qargs.operator[i].op] \in Elems(qerror)
    /\ (qargs # None /\ qargs.property.t = "str"
            /\ \A i \in 1..Len(qargs.operator) :
                   Canonical(qargs.operator[i].op) \in CanonicalNames) =>
           query # None

C10_Witness ==
    /\ query # None
    /\ Len(query.operator) = 2
    /\ qargs.operator[1].op = "<="
    /\ query.operator[1].op = "lte"
    /\ qargs.operator[2].op = "in"
    /\ query.operator[2].op = "in"
    /\ query.operator[1].value # query.operator[2].value

\* the comma-separated tokens of the string a parser was called with
CallTokens == Split(call.arg.v, ",")

Commas(str) == Cardinality({k \in 1..Len(str) : str[k] = ","})

Called_with_text(f) == call # None /\ call.f = f /\ call.arg # None /\ call.arg.v # <<>>

\* C11: SortBy.from_string on a non-empty string returns one SortBy per
\* comma-separated token, in order: "-x" is (x, desc), "+x" is (x, asc) and
\* an unsigned x is (x, asc).
C11_SortFromString ==
    Called_with_text("SortBy.from_string") =>
        /\ ret.ok
        /\ Len(ret.v) = Commas(call.arg.v) + 1
        /\ Len(ret.v) = Len(CallTokens)
        /\ \A i \in 1..Len(CallTokens) :
               LET p == CallTokens[i]
               IN  /\ ret.v[i].t = "SortBy"
                   /\ (Len(p) > 0 /\ p[1] = "-") =>
                          ret.v[i].direction = S_desc /\ ret.v[i].field = Str(Tail(p))
                   /\ (Len(p) > 0 /\ p[1] = "+") =>
                          ret.v[i].direction = S_asc /\ ret.v[i].field = Str(Tail(p))
                   /\ (Len(p) = 0 \/ p[1] \notin {"+", "-"}) =>
                          ret.v[i].direction = S_asc /\ ret.v[i].field = Str(p)

C11_Witness ==
    /\ call # None
    /\ call.f = "SortBy.from_string"
    /\ call.arg = Str(<<"-", "a", ",", "+", "b", ",", "a">>)
    /\ ret.ok
    /\ ret.v = <<[t |-> "SortBy", field |-> Str(<<"a">>), direction |-> S_desc],
                 [t |-> "SortBy", field |-> Str(<<"b">>), direction |-> S_asc],
                 [t |-> "SortBy", field |-> Str(<<"a">>), direction |-> S_asc]>>

\* a list of SortBy whose field names hold no comma, joined and parsed back
RoundTripped ==
    /\ call # None
    /\ call.f = "SortBy.round_trip"
    /\ \A i \in 1..Len(call.arg) : ~Contains(call.arg[i].field.v, ",")

\* C12 as stated: every list of SortBy with comma-free field names, joined
\* with "," and parsed by SortBy.from_string, comes back equal.
C12_SortRoundTrip ==
    RoundTripped => ret.ok /\ ret.v = call.arg

\* C12 amended: every non-empty list of SortBy with comma-free field names,
\* joined with "," and parsed by SortBy.from_string, comes back equal; the
\* empty list joins to the empty string, which from_string rejects.
C12_SortRoundTripNonEmpty ==
    /\ (RoundTripped /\ call.arg # <<>>) => ret.ok /\ ret.v = call.arg
    /\ (RoundTripped /\ call.arg = <<>>) =>
           ~ret.ok /\ ret.exc = "EmptyAttributeError"

C12_Witness ==
    /\ RoundTripped
    /\ Len(call.arg) = 2
    /\ call.arg[1].field = Str(<<"-", "a">>)
    /\ call.arg[1].direction = S_asc
    /\ call.arg[2].direction = S_desc
    /\ ret.ok
    /\ ret.v = call.arg

\* C14: SortBy.from_string and Field.from_string raise EmptyAttributeError
\* for the empty string and for None, and return nothing.
C14_EmptyStringRaises ==
    (call # None /\ call.f \in {"SortBy.from_string", "Field.from_string"}
         /\ call.arg \in {None, Str(<<>>)}) =>
        /\ ~ret.ok
        /\ ret.exc = "EmptyAttributeError"
        /\ "v" \notin DOMAIN ret

C14_Witness ==
    /\ call # None
    /\ call.f = "Field.from_string"
    /\ call.arg = Str(<<>>)
    /\ ret = [ok |-> FALSE, exc |-> "EmptyAttributeError"]

\* a token without its "+" or "-" prefix
Stripped(p) == IF Len(p) > 0 /\ p[1] \in {"+", "-"} THEN Tail(p) ELSE p

\* the names of the tokens that are excluded (or not), in input order
Names_of(tokens, excluded) ==
    LET kept == SelectSeq(tokens, LAMBDA p : (Len(p) > 0 /\ p[1] = "-") = excluded)
    IN  [i \in 1..Len(kept) |-> Str(Stripped(kept[i]))]

\* C15: Field.from_string puts every "-" token in the exclude bucket and
\* every "+" or unsigned token in the include bucket wherever it stands,
\* prefixes stripped, input order kept in each bucket; the result is
\* (include, exclude) with None for an empty bucket.
C15_FieldBuckets ==
    Called_with_text("Field.from_string") =>
        /\ ret.ok
        /\ ret.v.t = "tuple"
        /\ Len(ret.v.v) = 2
        /\ IF Names_of(CallTokens, FALSE) = <<>> THEN ret.v.v[1] = None
           ELSE ret.v.v[1] = [t |-> "Field", field_type |-> S_include,
                              fields |-> Names_of(CallTokens, FALSE)]
        /\ IF Names_of(CallTokens, TRUE) = <<>> THEN ret.v.v[2] = None
           ELSE ret.v.v[2] = [t |-> "Field", field_type |-> S_exclude,
                              fields |-> Names_of(CallTokens, TRUE)]

C15_Witness ==
    /\ call # None
    /\ call.f = "Field.from_string"
    /\ call.arg = Str(<<"-", "a", ",", "b", ",", "-", "b">>)
    /\ ret.ok
    /\ ret.v.v[1] = [t |-> "Field", field_type |-> S_include, fields |-> <<Str(<<"b">>)>>]
    /\ ret.v.v[2] = [t |-> "Field", field_type |-> S_exclude,
                     fields |-> <<Str(<<"a">>), Str(<<"b">>)>>]

\* a (direction, fields) entry with a direction and with its fields given
\* as a string or as a list or tuple of strings
IsSortEntry(e) ==
    /\ e.t \in {"tuple", "list"}
    /\ Len(e.v) = 2
    /\ e.v[1] \in {S_asc, S_desc}
    /\ \/ e.v[2].t = "str"
       \/ /\ e.v[2].t \in {"list", "tuple"}
          /\ \A i \in 1..Len(e.v[2].v) : e.v[2].v[i].t = "str"

\* the field names of an entry, in their own order
EntryNames(e) ==
    IF e.v[2].t = "str"
    THEN [i \in 1..(Commas(e.v[2].v) + 1) |-> Str(Split(e.v[2].v, ",")[i])]
    ELSE e.v[2].v

\* entry by entry, one SortBy per field with the entry's direction
RECURSIVE FannedOut(_)
FannedOut(entries) ==
    IF entries = <<>> THEN <<>>
    ELSE [i \in 1..Len(EntryNames(entries[1])) |->
             [t |-> "SortBy", field |-> EntryNames(entries[1])[i],
              direction |-> entries[1].v[1]]]
             \o FannedOut(Tail(entries))

\* C13: for sort_by given as a list of (direction, fields) entries the
\* Search is built and its sort_by holds, entry by entry in input order, one
\* SortBy per field of the entry with the entry's direction.
C13_SortEntriesFanOut ==
    (Called /\ args.sort_by.t = "list"
         /\ \A i \in 1..Len(args.sort_by.v) : IsSortEntry(args.sort_by.v[i])) =>
        /\ Built
        /\ search.sort_by = List(FannedOut(args.sort_by.v))

C13_Witness ==
    /\ Built
    /\ args.sort_by = List(<<Tuple(<<S_asc, Str(<<"a", ",", "b">>)>>),
                             Tuple(<<S_desc, List(<<Str(<<"b">>), Str(<<"a">>)>>)>>)>>)
    /\ search.sort_by.v =
           <<[t |-> "SortBy", field |-> Str(<<"a">>), direction |-> S_asc],
             [t |-> "SortBy", field |-> Str(<<"b">>), direction |-> S_asc],
             [t |-> "SortBy", field |-> Str(<<"b">>), direction |-> S_desc],
             [t |-> "SortBy", field |-> Str(<<"a">>), direction |-> S_desc]>>

\* fields was given as a pair of two Field directives
IsFieldPair(v) ==
    /\ v.t \in {"tuple", "list"}
    /\ Len(v.v) = 2
    /\ v.v[1].t = "Field"
    /\ v.v[2].t = "Field"

\* C16: in a constructed Search fields[0] is None or an include Field and
\* fields[1] is None or an exclude Field; a pair of directives given in
\* either order is stored as (include, exclude), a single directive goes to
\* its own side, and a pair of the same type fails the construction.
C16_FieldsIncludeFirst ==
    /\ (Built /\ search.fields # None) =>
           /\ search.fields.t = "tuple"
           /\ Len(search.fields.v) = 2
           /\ \/ search.fields.v[1] = None
              \/ /\ search.fields.v[1].t = "Field"
                 /\ search.fields.v[1].field_type = S_include
           /\ \/ search.fields.v[2] = None
              \/ /\ search.fields.v[2].t = "Field"
                 /\ search.fields.v[2].field_type = S_exclude
    /\ (Called /\ IsFieldPair(args.fields)
            /\ args.fields.v[1].field_type # args.fields.v[2].field_type) =>
           /\ args.sort_by # Str(<<>>) => Built
           /\ Built =>
                  \E i, j \in 1..2 :
                      /\ i # j
                      /\ args.fields.v[i].field_type = S_include
                      /\ search.fields = Tuple(<<args.fields.v[i], args.fields.v[j]>>)
    /\ (Built /\ args.fields.t = "Field") =>
           search.fields = IF args.fields.field_type = S_include
                           THEN Tuple(<<args.fields, None>>)
                           ELSE Tuple(<<None, args.fields>>)
    /\ (Called /\ IsFieldPair(args.fields)
            /\ args.fields.v[1].field_type = args.fields.v[2].field_type) =>
           /\ search = None
           /\ raised = Str(<<"ValidationError">>) => "fields" \in Elems(error)

C16_Witness ==
    /\ Built
    /\ args.fields = Tuple(<<Field_b, Field_a>>)
    /\ Field_b.field_type = S_exclude
    /\ search.fields = Tuple(<<Field_a, Field_b>>)

\* a serializer of the Search was called
Serialized(method) == request # None /\ request.method = method

\* the Search holds an include and an exclude directive
BothSides == search.fields # None /\ search.fields.v[1] # None /\ search.fields.v[2] # None

\* the Search holds exactly one of the two directives
OneSide ==
    /\ search.fields # None
    /\ (search.fields.v[1] = None) # (search.fields.v[2] = None)

\* the directives the Search holds
Sides == {k \in 1..2 : search.fields.v[k] # None}

\* C17: for a Search with an include and an exclude directive dict()
\* returns normally and its fields entry is the mapping
\* {include: include names, exclude: exclude names}; with one directive
\* fields holds that directive's key alone.
C17_DictMergesFields ==
    (Serialized("dict") /\ (BothSides \/ OneSide)) =>
        /\ request.out.ok
        /\ "fields" \in DOMAIN request.out.v
        /\ request.out.v["fields"] =
               Dict([key \in {search.fields.v[k].field_type : k \in Sides} |->
                        List(search.fields.v[IF key = S_include THEN 1 ELSE 2].fields)])

\* C18: get_request gives bbox, ids and collections as the ","-join of
\* their elements in order; ids or collections passed as a comma-separated
\* string come back as that very string.
C18_GetRequestJoins ==
    (Serialized("get_request") /\ request.out.ok) =>
        /\ search.bbox # None =>
               /\ request.out.v["bbox"].t = "str"
               /\ Commas(request.out.v["bbox"].v) = Len(search.bbox.v) - 1
               /\ \A i \in 1..Len(search.bbox.v) :
                      Split(request.out.v["bbox"].v, ",")[i]
                          = Decimal(search.bbox.v[i].v) \o <<".", "0">>
        /\ search.ids # None =>
               request.out.v["ids"]
                   = Str(Join([i \in 1..Len(search.ids.v) |-> search.ids.v[i].v], ","))
        /\ search.collections # None =>
               request.out.v["collections"]
                   = Str(Join([i \in 1..Len(search.collections.v) |->
                                  search.collections.v[i].v], ","))
        /\ args.ids.t = "str" => request.out.v["ids"] = args.ids
        /\ args.collections.t = "str" => request.out.v["collections"] = args.collections

C18_Witness ==
    /\ Serialized("get_request")
    /\ args.ids = Str(<<"1", ",", "2">>)
    /\ search.ids = List(<<Str(<<"1">>), Str(<<"2">>)>>)
    /\ args.collections = List(<<Str(<<"1">>), Str(<<"2">>)>>)
    /\ request.out.ok
    /\ request.out.v["ids"] = Str(<<"1", ",", "2">>)
    /\ request.out.v["collections"] = Str(<<"1", ",", "2">>)

\* the signed names of a directive
Signed(f) ==
    [i \in 1..Len(f.fields) |->
        <<IF f.field_type = S_exclude THEN "-" ELSE "+">> \o f.fields[i].v]

\* C19: get_request gives sortby as the ","-join of the signed strings of
\* the SortBys in list order, and fields as the compact field string: the
\* "+" names of the include directive, then the "-" names of the exclude
\* directive, joined by ","; one directive gives its own string alone.
C19_GetRequestCompactStrings ==
    Serialized("get_request") =>
        /\ (request.out.ok /\ search.sort_by # None) =>
               request.out.v["sortby"] =
                   Str(Join([i \in 1..Len(search.sort_by.v) |->
                                <<IF search.sort_by.v[i].direction = S_desc THEN "-" ELSE "+">>
                                    \o search.sort_by.v[i].field.v], ","))
        /\ (BothSides \/ OneSide) =>
               /\ request.out.ok
               /\ request.out.v["fields"] =
                      Str(Join((IF search.fields.v[1] # None
                                THEN Signed(search.fields.v[1]) ELSE <<>>)
                                   \o (IF search.fields.v[2] # None
                                       THEN Signed(search.fields.v[2]) ELSE <<>>), ","))

\* C20: no get_request() and no post_request() of a constructed Search has
\* a key search_type or searchType, and the get_request() of a Search built
\* with its search_type alone is {limit: 100}.
C20_NoSearchTypeKey ==
    /\ ((Serialized("get_request") \/ Serialized("post_request")) /\ request.out.ok) =>
           /\ "search_type" \notin DOMAIN request.out.v
           /\ "searchType" \notin DOMAIN request.out.v
    /\ (Serialized("get_request")
            /\ \E st \in SearchTypes : args = [DefaultArgs EXCEPT !.search_type = st]) =>
           request.out = Return("limit" :> Num(100))

C20_Witness ==
    /\ Serialized("get_request")
    /\ args = [DefaultArgs EXCEPT !.search_type = Str(<<"s", "t", "a", "t", "i", "c">>)]
    /\ request.out.ok
    /\ DOMAIN request.out.v = {"limit"}
    /\ request.out.v["limit"] = Num(100)

\* C21: dict() of a Search has the key search_type with the search_type of
\* the Search; built with search_type "api" alone it is
\* {search_type: "api", limit: 100}.
C21_DictHasSearchType ==
    (Serialized("dict") /\ request.out.ok) =>
        /\ "search_type" \in DOMAIN request.out.v
        /\ request.out.v["search_type"] = search.search_type
        /\ args = DefaultArgs =>
               request.out.v = ("search_type" :> S_api) @@ ("limit" :> Num(100))

\* C22: get_request() of a Search whose filter is a structured Filter has
\* neither filter nor filter-lang, and post_request() of a Search whose
\* filter is a raw string has neither filter nor filter-lang.
C22_FilterByTransport ==
    /\ (Serialized("get_request") /\ request.out.ok /\ search.filter.t = "Filter") =>
           /\ "filter" \notin DOMAIN request.out.v
           /\ "filter-lang" \notin DOMAIN request.out.v
    /\ (Serialized("post_request") /\ request.out.ok /\ search.filter.t = "str") =>
           /\ "filter" \notin DOMAIN request.out.v
           /\ "filter-lang" \notin DOMAIN request.out.v

\* the key of dict() for each search criterion
DictKeys ==
    [bbox |-> "bbox", intersects |-> "intersects", datetime |-> "datetime", ids |-> "ids",
     collections |-> "collections", query |-> "query", filter |-> "filter",
     filter_lang |-> "filter-lang", sort_by |-> "sortby", fields |-> "fields",
     limit |-> "limit"]

AsBuilt == NewSearch(args).v

\* the first serializer call of the run
FirstCall == IF earlier # None THEN earlier ELSE request

\* the caller changed a mapping that dict() had returned
DictChanged == held # None /\ FirstCall.method = "dict"

\* C24: once a Search is constructed, calls of dict(), get_request() and
\* post_request() and attempted attribute assignments leave every field as
\* it was built: an assignment raises FrozenInstanceError, a serializer
\* called twice returns the same result, and a change made to a mapping that
\* get_request() or post_request() returned does not reach the Search or a
\* later serialization.
C24_FrozenSearch ==
    (Built /\ ~DictChanged) =>
        /\ search = AsBuilt
        /\ attempt # None => attempt.exc = "FrozenInstanceError"
        /\ (earlier # None /\ earlier.method = request.method) =>
               request.out = earlier.out
        /\ (earlier # None /\ held # None) =>
               /\ held # earlier.out.v
               /\ request.out = Serialize(request.method, AsBuilt, request.local)

C24_Witness ==
    /\ Built
    /\ earlier # None
    /\ earlier.method = "post_request"
    /\ request.method = "post_request"
    /\ held # None
    /\ "ids" \in DOMAIN held
    /\ held["ids"] = List(<<Str(<<"1">>), Str(<<"2">>), Extra>>)
    /\ request.out.ok
    /\ request.out.v["ids"] = List(<<Str(<<"1">>), Str(<<"2">>)>>)
    /\ search.ids = List(<<Str(<<"1">>), Str(<<"2">>)>>)
    /\ attempt # None
    /\ attempt.exc = "FrozenInstanceError"

Offending == {f \in DOMAIN FieldResults(args) : ~FieldResults(args)[f].ok}

\* C25: when the coercion of any field fails, the construction raises an
\* error that names the offending field and no Search is produced; the
\* cross-field rules (bbox cleared, filter_lang inferred) show only in a
\* Search all of whose fields were coerced.
C25_AtomicConstruction ==
    /\ (Called /\ Offending # {}) =>
           /\ search = None
           /\ raised # None
           /\ \E f \in Offending : f \in Elems(error)
    /\ Built =>
           /\ Offending = {}
           /\ raised = None

\* the days-per-month table, February without its leap day
TableDays == <<31, 28, 31, 30, 31, 30, 31, 31, 30, 31, 30, 31>>

\* the days from the start of a coarse period to the day of its end
SpanDays == (range.end.d - range.start.d) + 1

\* C27: the coarse expansion adds one day to the end exactly under the
\* divisible-by-4 rule: for YYYY-MM the end is the start plus the table days
\* of the month, plus 1 iff the month is 2 and the year is divisible by 4,
\* minus one second; for YYYY it is the start plus 365 days, plus 1 iff the
\* year is divisible by 4, minus one second.
C27_ExtraDayWhenDivisibleBy4 ==
    (component # None /\ range.ok /\ Len(component.v) \in {4, 7}) =>
        /\ range.start = Utc0(CoarseYear, CoarseMonth, 1, 0, 0, 0)
        /\ range.end # None
        /\ range.end.s = SecondsPerDay - 1
        /\ Len(component.v) = 7 =>
               SpanDays = TableDays[CoarseMonth]
                              + (IF CoarseMonth = 2 /\ CoarseYear % 4 = 0 THEN 1 ELSE 0)
        /\ Len(component.v) = 4 =>
               SpanDays = 365 + (IF CoarseYear % 4 = 0 THEN 1 ELSE 0)

C27_Witness ==
    /\ component = Str(<<"1", "9", "0", "0", "-", "0", "2">>)
    /\ range.ok
    /\ range.start.d = Ymd2Ord(1900, 2, 1)
    /\ range.end.d = Ymd2Ord(1900, 3, 1)
    /\ range.end.s = SecondsPerDay - 1

\* the inner mapping of the result of Query.dict
InnerMapping == ret.v.m[query.property].m

\* the last position of a canonical name in the stored operator list
IsLast(i) == \A j \in (i + 1)..Len(query.operator) :
                 query.operator[j].op # query.operator[i].op

\* C28: Query.dict() returns {property: m} where m maps each canonical
\* operator name of the list to the value of its last occurrence; with '=='
\* followed by 'eq' the later value overwrites the earlier and the name
\* appears once.
C28_QueryDictLastWins ==
    (call # None /\ call.f = "Query.dict") =>
        /\ ret.ok
        /\ ret.v.t = "dict"
        /\ DOMAIN ret.v.m = {query.property}
        /\ ret.v.m[query.property].t = "dict"
        /\ DOMAIN InnerMapping = {Canonical(qargs.operator[i].op) : i \in 1..Len(qargs.operator)}
        /\ \A i \in 1..Len(query.operator) :
               IsLast(i) => InnerMapping[query.operator[i].op] = qargs.operator[i].value
        /\ query = call.arg

C28_Witness ==
    /\ call # None
    /\ call.f = "Query.dict"
    /\ qargs.operator = <<[op |-> "==", value |-> 2], [op |-> "eq", value |-> 3]>>
    /\ InnerMapping = ("eq" :> 3)

\* the mapping dict() of the i-th object of the call returns
ObjMapping(i) == ObjDict(call.arg[i]).v.m

\* the objects of the call whose mapping has the key
Holders(k) == {i \in 1..Len(call.arg) : k \in DOMAIN ObjMapping(i)}

\* the call of merge_schemas_dict was on objects that all have dict()
MergedObjects ==
    /\ call # None
    /\ call.f = "merge_schemas_dict"
    /\ \A i \in 1..Len(call.arg) : call.arg[i].t \in {"Query", "Field"}

\* C29: merge_schemas_dict returns the union of the objects' dict()
\* mappings: no key is lost, a key two objects share has the later object's
\* value whole (no nested merge), and an empty list gives an empty mapping.
C29_MergeIsLaterWinsUnion ==
    MergedObjects =>
        /\ ret.ok
        /\ ret.v.t = "dict"
        /\ DOMAIN ret.v.m = UNION {DOMAIN ObjMapping(i) : i \in 1..Len(call.arg)}
        /\ \A k \in DOMAIN ret.v.m :
               \A i \in Holders(k) :
                   (\A j \in Holders(k) : j <= i) => ret.v.m[k] = ObjMapping(i)[k]
        /\ call.arg = <<>> => DOMAIN ret.v.m = {}

C29_Witness ==
    /\ MergedObjects
    /\ Len(call.arg) = 3
    /\ call.arg[1] = NewQuery(Str(<<"a">>), <<[op |-> "eq", value |-> 2]>>).v
    /\ call.arg[2] = NewQuery(Str(<<"b">>), <<[op |-> "eq", value |-> 3]>>).v
    /\ call.arg[3].t = "Query"
    /\ ret.ok
    /\ DOMAIN ret.v.m = {Str(<<"a">>), Str(<<"b">>)}
    /\ ret.v.m[Str(<<"a">>)] = Dict(("lt" :> 2) @@ ("gt" :> 3))
    /\ ret.v.m[Str(<<"b">>)] = Dict("eq" :> 3)

\* C30: for every non-empty input string Field.from_string returns a pair
\* with at least one side that is not None: the error "No fields provided"
\* is never raised and (None, None) is never returned.
C30_FieldPairNeverEmpty ==
    (call # None /\ call.f = "Field.from_string" /\ call.arg # None
         /\ call.arg.t = "str" /\ call.arg.v # <<>>) =>
        /\ ret.ok
        /\ Len(ret.v.v) = 2
        /\ ret.v.v[1] # None \/ ret.v.v[2] # None
        /\ ret.v.v[1] # None => ret.v.v[1].t = "Field" /\ ret.v.v[1].fields # <<>>
        /\ ret.v.v[2] # None => ret.v.v[2].t = "Field" /\ ret.v.v[2].fields # <<>>

C30_Witness ==
    /\ call # None
    /\ call.f = "Field.from_string"
    /\ call.arg = Str(<<",">>)
    /\ ret.ok
    /\ ret.v.v[1] = [t |-> "Field", field_type |-> S_include,
                     fields |-> <<Str(<<>>), Str(<<>>)>>]
    /\ ret.v.v[2] = None

====
